---------------------------- MODULE Spec2Model ----------------------------
(***************************************************************************)
(* TrueDose (extension/popup.js): the claim-check pipeline of the popup.   *)
(*                                                                         *)
(* Numbers.  JavaScript doubles are held as exact integers in fixed units: *)
(* a confidence is held in tenths (8 is 0.8) and a qualityScore in 350ths  *)
(* (105 is 0.3, 175 is 0.5), the unit in which                             *)
(* 0.6 * log10(n + 1) / 3.5 + 0.4 * (1 - age / 20) is the integer          *)
(* 60 * log10(n + 1) + 140 - 7 * age.  A product weight * confidence is    *)
(* then a ratio of integers and Math.round is computed exactly; the        *)
(* rounding error of the doubles themselves is not modelled.  An absent    *)
(* property (undefined) is the empty tuple << >>, a present one the        *)
(* one-element tuple << v >>.                                              *)
(*                                                                         *)
(* Specifications.                                                         *)
(*   SpecScore    calculateTruthScore applied to bounded paper lists.      *)
(*   SpecAnalyze  analyzePapers followed by calculateTruthScore.           *)
(*   SpecMerge    the merge/deduplication loop of searchHybrid.            *)
(*   SpecRank     the filter, ranking and top-5 slice of searchHybrid.     *)
(*   Spec         one popup: onCheckClick driving searchHybrid and the     *)
(*                later stages.                                            *)
(*   SpecLive     Spec with an external call that may never settle, and    *)
(*                fairness for the steps of a running check.               *)
(*   SpecEnrich   enrichPubMedWithCitations, lookup by lookup.             *)
(*   SpecMetadata extractStudyMetadata, prompt by prompt.                  *)
(*   SpecRephrase rephraseToMedicalQuery and its fallback keywords.        *)
(*   SpecParse    the parsing of a model response by the popup's and the   *)
(*                server's calls.                                          *)
(*   SpecPopup    the context-menu handoff and the clicks on the button.   *)
(***************************************************************************)
EXTENDS Integers, Sequences, FiniteSets, TLC

VARIABLES
    scorePapers,    \* pubmedResults.papers handed to calculateTruthScore
    scoreResult,    \* << >> before the call, << TruthScore >> after it
    anPapers,       \* analyzePapers: the papers argument
    anPc,           \* analyzePapers: "idle", "start", "prompting", "returned", "scored"
    anOutcome,      \* analyzePapers: per paper, << >> while session.prompt is
                    \* pending, then << how it settled >>
    anResult,       \* analyzePapers: << >> until it returns, then << the list >>
    mergeSemantic,  \* searchHybrid: semanticPapers
    mergePubMed,    \* searchHybrid: enrichedPubMed
    mergePc,        \* searchHybrid: "idle", "searching", "empty", "merged"
    allPapers,      \* searchHybrid: allPapers after the merge loop
    pc,             \* onCheckClick: the await it is suspended at, or "idle"
    claim,          \* onCheckClick: claim (the trimmed input)
    language,       \* onCheckClick: language
    button,         \* #checkButton: [disabled, text]
    resultsView,    \* #results: "hidden", "progress", "noResearch", "error", "result"
    alertShown,     \* the last click ended in alert(...)
    cachedSessions, \* cachedSessions: [languageModel, summarizer], TRUE when non-null
    sessionsCreated, \* per kind, the create() calls that resolved in this popup
    medicalQuery,   \* searchHybrid: medicalQuery
    pubmedPapers,   \* searchHybrid: << >> while searchPubMed is pending, then << list >>
    semanticPapers, \* searchHybrid: the same for searchSemanticScholar
    failedSources,  \* the sources whose search failed in this check
    branches,       \* the fan-out in flight: per item << >> or << outcome >>; for
                    \* the abstract backfill, the papers still to fetch
    work,           \* the paper list the current stage works on
    pubmedResults,  \* onCheckClick: << >> until searchHybrid returns
    summaries,      \* onCheckClick: summaries
    truthScore,     \* onCheckClick: << >> until calculateTruthScore returns
    narrativeCalls, \* session.prompt calls of step 6 in this check
    translateCalls, \* translateText calls in this check
    analysis,       \* << >>, or << the text handed to displayResults >>
    rankInput,      \* searchHybrid: allPapers after fetchMissingAbstracts
    rankPc,         \* "idle", "collect", "ranked", "returned", "analysed"
    rankRanked,     \* searchHybrid: rankedPapers
    rankReturned,   \* << >>, or << what searchHybrid returned >>
    metadataPrompts,  \* session.prompt calls issued by extractStudyMetadata
    sentimentPrompts, \* session.prompt calls issued by analyzePapers
    researchSummary,  \* buildFactCheckPrompt: the entries of the numbered list
    enrichInput,    \* enrichPubMedWithCitations: pubmedPapers
    enrichPc,       \* "idle", "collect", "lookups", "returned"
    enrichLookups,  \* per paper, the lookups issued so far and how each ended
    enrichSettled,  \* per paper, << >> or << what its callback returned >>
    enrichResult,   \* << >>, or << enrichedPapers >>
    mdPapers,       \* extractStudyMetadata: the papers argument
    mdPc,           \* "idle", "collect", "start", "prompting", "returned"
    mdOutcome,      \* per paper, << >> while session.prompt is pending, else
                    \* << how it settled >>
    mdResult,       \* << >>, or << what extractStudyMetadata returned >>
    rqClaim,        \* rephraseToMedicalQuery: the claim, as a sequence of words
                    \* and of the characters between them
    rqPc,           \* "idle", "collect", "session", "prompting", "returned", "threw"
    rqAttempts,     \* session.prompt calls issued
    rqFailed,       \* whether the catch block ran
    rqResult,       \* << >>, or << the query returned >>
    parseCall,      \* the model call whose response is parsed, "" before it
    parsePc,        \* "idle", "choose", "respond", "done"
    parseContent,   \* the text the model answered with, a sequence of tokens
    parseResult,    \* << >>, or << what the caller gets >>
    hungCall,       \* << >>, or << the external call of the running check that
                    \* never settles >>
    storage,        \* chrome.storage.local: selectedText and runSearchOnOpen
    menuClicks,     \* context-menu clicks on "Verify this claim" so far
    bgWrites,       \* background.js: the storage.local.set calls not yet carried out
    bgOpens,        \* background.js: the action.openPopup calls not yet carried out
    popup,          \* "closed", "loading" (DOMContentLoaded up to storage.get), "open"
    popupInput,     \* #claimInput.value
    popupRead,      \* << >>, or << what storage.local.get handed to the callback >>
    popupRemove,    \* the popup's storage.local.remove is not yet carried out
    popupTimer,     \* setTimeout(() => btn.click(), 0) is pending
    popupDisabled,  \* #checkButton.disabled
    popupInFlight,  \* runs of onCheckClick between its first await and its finally
    autoRuns,       \* checks started by the timer's btn.click()
    lastClick,      \* what the last click did: "none", "started", "alerted", "dropped"
    userActed       \* the user opened or closed the popup, typed or clicked

scoreVars == << scorePapers, scoreResult >>

anVars == << anPapers, anPc, anOutcome, anResult >>

mergeVars == << mergeSemantic, mergePubMed, mergePc, allPapers >>

uiVars == << button, resultsView, alertShown >>

inputVars == << claim, language >>

searchVars == << medicalQuery, pubmedPapers, semanticPapers, failedSources >>

dataVars == << work, pubmedResults, summaries, truthScore, analysis >>

callVars == << narrativeCalls, translateCalls >>

sessionVars == << cachedSessions, sessionsCreated >>

checkVars == << pc, inputVars, uiVars, sessionVars, searchVars, branches,
                dataVars, callVars >>

rankVars == << rankInput, rankPc, rankRanked, rankReturned, metadataPrompts,
              sentimentPrompts, researchSummary >>

enrichVars == << enrichInput, enrichPc, enrichLookups, enrichSettled, enrichResult >>

\* The variables of the specifications of single functions added to the five
\* above
mdVars == << mdPapers, mdPc, mdOutcome, mdResult >>

rqVars == << rqClaim, rqPc, rqAttempts, rqFailed, rqResult >>

parseVars == << parseCall, parsePc, parseContent, parseResult >>

liveVars == << hungCall >>

popupVars == << storage, menuClicks, bgWrites, bgOpens, popup, popupInput, popupRead,
               popupRemove, popupTimer, popupDisabled, popupInFlight, autoRuns,
               lastClick, userActed >>

extraVars == << enrichVars, mdVars, rqVars, parseVars, liveVars, popupVars >>

vars == << scoreVars, anVars, mergeVars, checkVars, rankVars, extraVars >>

\* The variables each specification leaves alone
scoreOthers == << anVars, mergeVars, checkVars, rankVars, extraVars >>

anOthers == << mergeVars, checkVars, rankVars, extraVars >>

mergeOthers == << scoreVars, anVars, checkVars, rankVars, extraVars >>

checkOthers == << scoreVars, anVars, mergeVars, rankVars, extraVars >>

rankOthers == << scoreVars, anVars, mergeVars, checkVars, extraVars >>

baseVars == << scoreVars, anVars, mergeVars, checkVars, rankVars >>

enrichOthers == << baseVars, mdVars, rqVars, parseVars, liveVars, popupVars >>

mdOthers == << baseVars, enrichVars, rqVars, parseVars, liveVars, popupVars >>

rqOthers == << baseVars, enrichVars, mdVars, parseVars, liveVars, popupVars >>

parseOthers == << baseVars, enrichVars, mdVars, rqVars, liveVars, popupVars >>

popupOthers == << baseVars, enrichVars, mdVars, rqVars, parseVars, liveVars >>

---------------------------------------------------------------------------
(* Optional values *)

None == << >>

Some(v) == << v >>

Has(o) == o # << >>

Get(o) == o[1]

(* Sum of f[i] over a sequence of integers *)
RECURSIVE SumSeq(_)
SumSeq(s) == IF s = << >> THEN 0 ELSE Head(s) + SumSeq(Tail(s))

Max(a, b) == IF a >= b THEN a ELSE b

Min(a, b) == IF a <= b THEN a ELSE b

---------------------------------------------------------------------------
(* calculateTruthScore, popup.js 521-601 *)

\* `|| 0.5` applied to a qualityScore (0.5 is 175/350): undefined and 0 are
\* both falsy
DefaultQuality == 175

\* `|| 0.5` applied to paperSentiment.confidence (tenths)
DefaultConfidence == 5

QualityOrDefault(p) ==
    IF Has(p.qualityScore) /\ Get(p.qualityScore) # 0
    THEN Get(p.qualityScore) ELSE DefaultQuality

ConfidenceOrDefault(p) ==
    LET s == Get(p.paperSentiment)
    IN  IF Has(s.confidence) /\ Get(s.confidence) # 0
        THEN Get(s.confidence) ELSE DefaultConfidence

\* papers.filter(p => p.paperSentiment)
PapersWithSentiment(papers) == SelectSeq(papers, LAMBDA p : Has(p.paperSentiment))

\* Mutant: the weights are not normalised (the total is taken to be 1.0)
TotalQualityWeightUnnormalised(pws) == 350

\* reduce((sum, paper) => sum + (paper.qualityScore || 0.5), 0), in 350ths
TotalQualityWeight(pws) ==
    SumSeq([i \in 1..Len(pws) |-> QualityOrDefault(pws[i])])

\* The if / else if / else chain over paperSentiment.sentiment
Bucket(p) ==
    LET s == Get(p.paperSentiment).sentiment
    IN  IF s = Some("POSITIVE") THEN "positive"
        ELSE IF s = Some("NEGATIVE") THEN "negative"
        ELSE "neutral"

\* Sum of quality * confidence over the papers of one bucket; divided by
\* TotalQualityWeight it is the bucket's weighted share, in tenths.
WeightedSum(pws, b) ==
    SumSeq([i \in 1..Len(pws) |->
        IF Bucket(pws[i]) = b
        THEN QualityOrDefault(pws[i]) * ConfidenceOrDefault(pws[i]) ELSE 0])

\* Math.round(x): the integer nearest to num / den, halves rounded up
RoundDiv(num, den) == (2 * num + den) \div (2 * den)

\* Math.round(weighted * 100)
Percent(pws, b) == RoundDiv(10 * WeightedSum(pws, b), TotalQualityWeight(pws))

\* Mutant: the lower clamp is missing
ClampUpperOnly(x) == Min(100, x)

\* Math.max(0, Math.min(100, truthScore))
Clamp(x) == Max(0, Min(100, x))

\* Mutant: strict comparisons shift every band by one paper
ConfidenceBandStrict(count) ==
    IF count > 5 THEN 90
    ELSE IF count > 3 THEN 80
    ELSE IF count > 1 THEN 60
    ELSE 50

\* Confidence based on number of papers analyzed
ConfidenceBand(count) ==
    IF count >= 5 THEN 90
    ELSE IF count >= 3 THEN 80
    ELSE IF count >= 1 THEN 60
    ELSE 50

ResearchBreakdown(papers) ==
    LET pws == PapersWithSentiment(papers)
    IN  IF Len(papers) > 0 /\ Len(pws) > 0
        THEN [positive |-> Percent(pws, "positive"),
              negative |-> Percent(pws, "negative"),
              neutral  |-> Percent(pws, "neutral")]
        ELSE [positive |-> 0, negative |-> 0, neutral |-> 0]

\* Mutant: the score starts at 0 instead of the neutral 50
RawTruthScoreFromZero(papers) ==
    LET pws == PapersWithSentiment(papers)
        b   == ResearchBreakdown(papers)
    IN  IF Len(papers) > 0 /\ Len(pws) > 0
        THEN Clamp(b.positive - b.negative)
        ELSE 0

\* let truthScore = 50, then the clamped difference when sentiments exist
RawTruthScore(papers) ==
    LET pws == PapersWithSentiment(papers)
        b   == ResearchBreakdown(papers)
    IN  IF Len(papers) > 0 /\ Len(pws) > 0
        THEN Clamp(b.positive - b.negative)
        ELSE 50

calculateTruthScore(papers, count) ==
    [truthScore |-> RawTruthScore(papers),
     confidence |-> ConfidenceBand(count),
     paperCount |-> count,
     breakdown  |-> ResearchBreakdown(papers)]

---------------------------------------------------------------------------
(* SpecScore: calculateTruthScore on bounded inputs *)

MaxScorePapers == 5

\* A paperSentiment object: each property present (Some) or absent (None)
SentimentObject(s, c, r) == [sentiment |-> s, confidence |-> c, reason |-> r]

\* An object carrying all three properties, the confidence in tenths
Sentiment(s, c) == SentimentObject(Some(s), Some(c), Some("r"))

ScorePaper(q, ps) == [qualityScore |-> q, paperSentiment |-> ps]

\* The kinds of paper a list is drawn from: qualityScore 0.3, 0.2, 0.5, 0.7,
\* 0.2, 0.1, 0.5, 0 and 0.5 (in 350ths), confidence in tenths
ScorePaperKinds ==
    { ScorePaper(Some(105), Some(Sentiment("POSITIVE", 8))),
      ScorePaper(Some(70), Some(Sentiment("NEGATIVE", 6))),
      ScorePaper(Some(175), None),
      ScorePaper(Some(245), Some(Sentiment("POSITIVE", 10))),
      ScorePaper(Some(70), Some(Sentiment("NEGATIVE", 10))),
      ScorePaper(Some(35), Some(Sentiment("NEUTRAL", 10))),
      ScorePaper(Some(175), Some(Sentiment("POSITIVE", 0))),
      ScorePaper(Some(0), Some(Sentiment("NEGATIVE", 10))),
      ScorePaper(Some(175), Some(Sentiment("POSITIVE", 50))) }

AnalyzeIdle ==
    /\ anPapers = << >>
    /\ anPc = "idle"
    /\ anOutcome = << >>
    /\ anResult = None

MergeIdle ==
    /\ mergeSemantic = << >>
    /\ mergePubMed = << >>
    /\ mergePc = "idle"
    /\ allPapers = << >>

\* The button as popup.html and the finally block leave it
ButtonReady == [disabled |-> FALSE, text |-> "How true is that?"]

\* The ranking specification's variables when it is not the one running
RankIdle ==
    /\ rankInput = << >>
    /\ rankPc = "idle"
    /\ rankRanked = << >>
    /\ rankReturned = << >>
    /\ metadataPrompts = 0
    /\ sentimentPrompts = 0
    /\ researchSummary = << >>

EnrichIdle ==
    /\ enrichInput = << >>
    /\ enrichPc = "idle"
    /\ enrichLookups = << >>
    /\ enrichSettled = << >>
    /\ enrichResult = << >>

\* The single-function specifications when none of them is the one running
MetadataIdle ==
    /\ mdPapers = << >>
    /\ mdPc = "idle"
    /\ mdOutcome = << >>
    /\ mdResult = None

RephraseIdle ==
    /\ rqClaim = << >>
    /\ rqPc = "idle"
    /\ rqAttempts = 0
    /\ rqFailed = FALSE
    /\ rqResult = None

ParseIdle ==
    /\ parseCall = ""
    /\ parsePc = "idle"
    /\ parseContent = << >>
    /\ parseResult = None

LiveIdle == hungCall = None

\* chrome.storage.local without the two keys
EmptyStorage == [selectedText |-> None, runSearchOnOpen |-> FALSE]

\* No context-menu click yet, the popup of the handoff closed
HandoffIdle ==
    /\ storage = EmptyStorage
    /\ menuClicks = 0
    /\ bgWrites = << >>
    /\ bgOpens = 0
    /\ popup = "closed"
    /\ popupInput = ""
    /\ popupRead = None
    /\ popupRemove = FALSE
    /\ popupTimer = FALSE
    /\ popupDisabled = FALSE
    /\ popupInFlight = 0
    /\ autoRuns = 0
    /\ lastClick = "none"
    /\ userActed = FALSE

ExtraIdle ==
    /\ LiveIdle
    /\ HandoffIdle
    /\ EnrichIdle
    /\ MetadataIdle
    /\ RephraseIdle
    /\ ParseIdle

\* The popup after DOMContentLoaded, no check started
PopupLoaded ==
    /\ pc = "idle"
    /\ claim = ""
    /\ language = "en"
    /\ button = ButtonReady
    /\ resultsView = "hidden"
    /\ alertShown = FALSE
    /\ cachedSessions = [languageModel |-> FALSE, summarizer |-> FALSE]
    /\ sessionsCreated = [languageModel |-> 0, summarizer |-> 0]
    /\ medicalQuery = ""
    /\ pubmedPapers = << >>
    /\ semanticPapers = << >>
    /\ failedSources = {}
    /\ branches = << >>
    /\ work = << >>
    /\ pubmedResults = << >>
    /\ summaries = << >>
    /\ truthScore = << >>
    /\ narrativeCalls = 0
    /\ translateCalls = 0
    /\ analysis = << >>

ScoreInit ==
    /\ scorePapers = << >>
    /\ scoreResult = None
    /\ AnalyzeIdle
    /\ MergeIdle
    /\ PopupLoaded
    /\ RankIdle
    /\ ExtraIdle

ScoreAddPaper ==
    /\ scoreResult = None
    /\ Len(scorePapers) < MaxScorePapers
    /\ \E p \in ScorePaperKinds : scorePapers' = Append(scorePapers, p)
    /\ UNCHANGED << scoreResult, scoreOthers >>

ScoreCalculate ==
    /\ scoreResult = None
    /\ scoreResult' = Some(calculateTruthScore(scorePapers, Len(scorePapers)))
    /\ UNCHANGED << scorePapers, scoreOthers >>

ScoreNext == ScoreAddPaper \/ ScoreCalculate

SpecScore == ScoreInit /\ [][ScoreNext]_vars

---------------------------------------------------------------------------
(* Claims about calculateTruthScore, checked under SpecScore *)

ScoreDone == Has(scoreResult)

SomeSentiment(papers) == \E i \in 1..Len(papers) : Has(papers[i].paperSentiment)

ClaimQuality(p) == IF Has(p.qualityScore) THEN Get(p.qualityScore) ELSE DefaultQuality

ClaimWeightedSum(pws, b) ==
    SumSeq([i \in 1..Len(pws) |->
        IF Bucket(pws[i]) = b
        THEN ClaimQuality(pws[i]) * Get(Get(pws[i].paperSentiment).confidence)
        ELSE 0])

ClaimTotal(pws) == SumSeq([i \in 1..Len(pws) |-> ClaimQuality(pws[i])])

ClaimPercent(pws, b) == RoundDiv(10 * ClaimWeightedSum(pws, b), ClaimTotal(pws))

ConfidencesInUnitInterval(pws) ==
    \A i \in 1..Len(pws) :
        /\ Has(Get(pws[i].paperSentiment).confidence)
        /\ Get(Get(pws[i].paperSentiment).confidence) \in 0..10

\* C3: for a non-empty set of papers with sentiment whose confidences lie in
\* [0,1], each bucket is round(100 * sum of weight * confidence) over the
\* papers of that label, the weight being qualityScore (0.5 when missing)
\* over the sum of those values.
C3_BucketsAreWeightedConfidence ==
    ScoreDone =>
        LET pws == PapersWithSentiment(scorePapers)
            b   == Get(scoreResult).breakdown
        IN  (Len(pws) > 0 /\ ConfidencesInUnitInterval(pws) /\ ClaimTotal(pws) > 0) =>
                /\ b.positive = ClaimPercent(pws, "positive")
                /\ b.negative = ClaimPercent(pws, "negative")
                /\ b.neutral  = ClaimPercent(pws, "neutral")

\* The end-to-end scenario of C4: three POSITIVE papers (confidence 0.8,
\* quality 0.3) and two NEGATIVE papers (confidence 0.6, quality 0.2)
C4Positive == ScorePaper(Some(105), Some(Sentiment("POSITIVE", 8)))

C4Negative == ScorePaper(Some(70), Some(Sentiment("NEGATIVE", 6)))

C4Scenario ==
    /\ Len(scorePapers) = 5
    /\ \A i \in 1..5 : scorePapers[i] \in {C4Positive, C4Negative}
    /\ Cardinality({i \in 1..5 : scorePapers[i] = C4Positive}) = 3

\* C4 as stated: the scenario yields positive ~ 72, negative ~ 24,
\* truthScore ~ 48 (each within one point) and confidence 90.
C4_ScenarioAsStated ==
    (ScoreDone /\ C4Scenario) =>
        LET r == Get(scoreResult)
        IN  /\ r.breakdown.positive \in 71..73
            /\ r.breakdown.negative \in 23..25
            /\ r.truthScore \in 47..49
            /\ r.confidence = 90

\* C4 amended: the quality values are normalised by their sum 1.3, so the
\* scenario yields positive = 55, negative = 18, truthScore = 37,
\* confidence = 90.
C4_ScenarioNormalised ==
    (ScoreDone /\ C4Scenario) =>
        LET r == Get(scoreResult)
        IN  /\ r.breakdown.positive = 55
            /\ r.breakdown.negative = 18
            /\ r.breakdown.neutral = 0
            /\ r.truthScore = 37
            /\ r.confidence = 90

C4_Witness == ScoreDone /\ C4Scenario

\* C5: paperCount is the paper count n and confidence is 50 for n < 1, 60
\* for n in 1..2, 80 for n in 3..4 and 90 for n >= 5, whatever the sentiments.
C5_ConfidenceBands ==
    ScoreDone =>
        LET r == Get(scoreResult)
            n == Len(scorePapers)
        IN  /\ r.paperCount = n
            /\ (n < 1) => r.confidence = 50
            /\ (n \in 1..2) => r.confidence = 60
            /\ (n \in 3..4) => r.confidence = 80
            /\ (n >= 5) => r.confidence = 90

\* Five papers, analysed or not, have been scored with confidence 90
C5_Witness ==
    /\ ScoreDone
    /\ Len(scorePapers) = 5
    /\ ~ Has(scorePapers[1].paperSentiment)
    /\ SomeSentiment(scorePapers)
    /\ Get(scoreResult).confidence = 90

\* C6: when no paper carries a paperSentiment the result is truthScore 50
\* with an all-zero breakdown, the confidence still banded by the count.
C6_NoSentimentIsNeutral ==
    (ScoreDone /\ ~ SomeSentiment(scorePapers)) =>
        LET r == Get(scoreResult)
            n == Len(scorePapers)
        IN  /\ r.truthScore = 50
            /\ r.breakdown = [positive |-> 0, negative |-> 0, neutral |-> 0]
            /\ r.confidence =
                 (IF n >= 5 THEN 90 ELSE IF n >= 3 THEN 80 ELSE IF n >= 1 THEN 60 ELSE 50)

\* Three papers came back unanalysed and were scored
C6_Witness ==
    /\ ScoreDone
    /\ Len(scorePapers) = 3
    /\ ~ SomeSentiment(scorePapers)
    /\ Get(scoreResult).truthScore = 50
    /\ Get(scoreResult).confidence = 80

---------------------------------------------------------------------------
(* analyzePapers, popup.js 650-718 *)
(*                                                                         *)
(* A model response is a sequence of tokens: "{" and "}", "TXT" for text   *)
(* holding no brace, "FENCE" for a Markdown code-fence line, and the name  *)
(* of a body: the properties written between the braces of a flat object.  *)

\* The objects JSON.parse yields for each body (confidence in tenths)
BodyNames == {"B_POS8", "B_NEG6", "B_NOFIELDS", "B_CONF85", "B_MIXED"}

BodyObject(b) ==
    CASE b = "B_POS8"     -> Sentiment("POSITIVE", 8)
      [] b = "B_NEG6"     -> Sentiment("NEGATIVE", 6)
      [] b = "B_NOFIELDS" -> SentimentObject(None, None, None)
      [] b = "B_CONF85"   -> Sentiment("POSITIVE", 850)
      [] b = "B_MIXED"    -> Sentiment("MIXED", 7)

\* response.match(/\{[\s\S]*\}/): greedy, from the first "{" that has a "}"
\* after it to the last "}"; << >> when there is no such pair (null)
JsonMatch(response) ==
    LET opens  == {i \in 1..Len(response) : response[i] = "{"}
        closes == {i \in 1..Len(response) : response[i] = "}"}
        pairs  == {i \in opens : \E j \in closes : i < j}
    IN  IF pairs = {} THEN None
        ELSE LET first == CHOOSE i \in pairs : \A k \in pairs : i <= k
                 last  == CHOOSE j \in closes : \A k \in closes : k <= j
             IN  Some(SubSeq(response, first, last))

\* JSON.parse(text): << object >>, or << >> when it throws a SyntaxError
JsonParse(text) ==
    IF Len(text) = 3 /\ text[1] = "{" /\ text[3] = "}" /\ text[2] \in BodyNames
    THEN Some(BodyObject(text[2]))
    ELSE IF text = << "{", "}" >> THEN Some(BodyObject("B_NOFIELDS"))
    ELSE None

\* The catch branch's literal
FallbackConfidence == 5

FallbackSentiment ==
    SentimentObject(Some("NEUTRAL"), Some(FallbackConfidence), Some("Analysis failed"))

\* How one session.prompt call settles: it throws, or resolves with a response
Threw == [threw |-> TRUE, response |-> << >>]

Responded(r) == [threw |-> FALSE, response |-> r]

\* Mutant: a rejected prompt is not replaced by the fallback object
SentimentForUnguarded(outcome) ==
    IF outcome.threw THEN SentimentObject(None, None, None)
    ELSE LET m == JsonMatch(outcome.response)
         IN  IF ~ Has(m) THEN FallbackSentiment
             ELSE LET parsed == JsonParse(Get(m))
                  IN  IF Has(parsed) THEN Get(parsed) ELSE FallbackSentiment

\* The body of the try / catch of one paper's async callback
SentimentFor(outcome) ==
    IF outcome.threw THEN FallbackSentiment
    ELSE LET m == JsonMatch(outcome.response)
         IN  IF ~ Has(m) THEN FallbackSentiment
             ELSE LET parsed == JsonParse(Get(m))
                  IN  IF Has(parsed) THEN Get(parsed) ELSE FallbackSentiment

\* { ...paper, paperSentiment: ... }
WithSentiment(paper, sentiment) == [paper EXCEPT !.paperSentiment = Some(sentiment)]

\* Mutant: one rejected prompt makes every paper take the fallback
AnalysedPapersAllOrNothing(papers, outcomes) ==
    [i \in 1..Len(papers) |->
        WithSentiment(papers[i],
            IF \E k \in 1..Len(papers) : Get(outcomes[k]).threw
            THEN FallbackSentiment
            ELSE SentimentFor(Get(outcomes[i])))]

\* await Promise.all(analysisPromises): results in the order of the input
AnalysedPapers(papers, outcomes) ==
    [i \in 1..Len(papers) |-> WithSentiment(papers[i], SentimentFor(Get(outcomes[i])))]

---------------------------------------------------------------------------
(* SpecAnalyze: analyzePapers on bounded inputs, then calculateTruthScore *)

MaxAnalyzePapers == 3

AnalyzeTitles == << "T1", "T2", "T3", "T4", "T5", "T6" >>

\* The i-th paper handed to analyzePapers: ranked, summarised, not analysed
AnalyzePaper(i) ==
    [title          |-> AnalyzeTitles[i],
     qualityScore   |-> Some(35 * (6 - i)),
     paperSentiment |-> None]

\* The responses a prompt may resolve with
AnalyzeResponses ==
    { << "{", "B_POS8", "}" >>,
      << "FENCE", "{", "B_NEG6", "}", "FENCE" >>,
      << "TXT" >>,
      << "TXT", "{", "TXT", "}" >>,
      << "{", "B_POS8", "}", "TXT", "{", "B_NEG6", "}" >>,
      << "{", "B_NOFIELDS", "}" >>,
      << "{", "B_CONF85", "}" >>,
      << "{", "B_MIXED", "}" >> }

AnalyzeOutcomes == {Threw} \cup {Responded(r) : r \in AnalyzeResponses}

AnalyzeInit ==
    /\ scorePapers = << >>
    /\ scoreResult = None
    /\ anPc = "start"
    /\ \E n \in 0..MaxAnalyzePapers : anPapers = [i \in 1..n |-> AnalyzePaper(i)]
    /\ anOutcome = [i \in 1..Len(anPapers) |-> None]
    /\ anResult = None
    /\ MergeIdle
    /\ PopupLoaded
    /\ RankIdle
    /\ ExtraIdle

\* if (papers.length === 0) return papers
AnalyzeNoPapers ==
    /\ anPc = "start"
    /\ Len(anPapers) = 0
    /\ anResult' = Some(anPapers)
    /\ anPc' = "returned"
    /\ UNCHANGED << anPapers, anOutcome, scoreVars, anOthers >>

\* getLanguageModelSession() throws: the outer catch returns the papers as given
AnalyzeSessionFails ==
    /\ anPc = "start"
    /\ Len(anPapers) > 0
    /\ anResult' = Some(anPapers)
    /\ anPc' = "returned"
    /\ UNCHANGED << anPapers, anOutcome, scoreVars, anOthers >>

\* The session is obtained and papers.map issues one prompt per paper
AnalyzeSessionOk ==
    /\ anPc = "start"
    /\ Len(anPapers) > 0
    /\ anPc' = "prompting"
    /\ UNCHANGED << anPapers, anOutcome, anResult, scoreVars, anOthers >>

\* One pending prompt settles, in any order
AnalyzePromptSettles ==
    /\ anPc = "prompting"
    /\ \E i \in 1..Len(anPapers) :
         /\ anOutcome[i] = None
         /\ \E o \in AnalyzeOutcomes :
              anOutcome' = [anOutcome EXCEPT ![i] = Some(o)]
    /\ UNCHANGED << anPapers, anPc, anResult, scoreVars, anOthers >>

\* Promise.all resolves once every callback has returned
AnalyzeReturn ==
    /\ anPc = "prompting"
    /\ \A i \in 1..Len(anPapers) : Has(anOutcome[i])
    /\ anResult' = Some(AnalysedPapers(anPapers, anOutcome))
    /\ anPc' = "returned"
    /\ UNCHANGED << anPapers, anOutcome, scoreVars, anOthers >>

\* onCheckClick: pubmedResults.papers = papersWithAnalysis, then
\* calculateTruthScore(pubmedResults, claim) with count = papers.length
AnalyzeScore ==
    /\ anPc = "returned"
    /\ scorePapers' = Get(anResult)
    /\ scoreResult' = Some(calculateTruthScore(Get(anResult), Len(Get(anResult))))
    /\ anPc' = "scored"
    /\ UNCHANGED << anPapers, anOutcome, anResult, anOthers >>

AnalyzeNext ==
    \/ AnalyzeNoPapers
    \/ AnalyzeSessionFails
    \/ AnalyzeSessionOk
    \/ AnalyzePromptSettles
    \/ AnalyzeReturn
    \/ AnalyzeScore

SpecAnalyze == AnalyzeInit /\ [][AnalyzeNext]_vars

---------------------------------------------------------------------------
(* Claims about analyzePapers, checked under SpecAnalyze *)

\* analyzePapers has returned after prompting every paper
AnalyzedWithSession ==
    /\ anPc \in {"returned", "scored"}
    /\ Len(anPapers) > 0
    /\ \A i \in 1..Len(anPapers) : Has(anOutcome[i])

\* The exact fallback object of the claim
NeutralHalfAnalysisFailed ==
    [sentiment |-> << "NEUTRAL" >>, confidence |-> << 5 >>, reason |-> << "Analysis failed" >>]

\* A response that is one JSON object, alone or inside a code fence
IsJsonObject(response) ==
    LET bare == SelectSeq(response, LAMBDA t : t # "FENCE")
    IN  Len(bare) = 3 /\ bare[1] = "{" /\ bare[3] = "}" /\ bare[2] \in BodyNames

ObjectOf(response) == BodyObject(SelectSeq(response, LAMBDA t : t # "FENCE")[2])

\* C8: every paper whose prompt threw holds exactly the NEUTRAL / 0.5 /
\* 'Analysis failed' object, every paper whose prompt answered with a JSON
\* object holds the object of its own response (an answer that is no JSON
\* object takes the fallback too), and the returned list is the input's
\* papers in the input's order.
C8_FailureIsolation ==
    AnalyzedWithSession =>
        LET res == Get(anResult)
        IN  /\ Len(res) = Len(anPapers)
            /\ \A i \in 1..Len(anPapers) :
                 LET o == Get(anOutcome[i])
                 IN  /\ res[i].title = anPapers[i].title
                     /\ res[i].qualityScore = anPapers[i].qualityScore
                     /\ Has(res[i].paperSentiment)
                     /\ o.threw => Get(res[i].paperSentiment) = NeutralHalfAnalysisFailed
                     /\ (~ o.threw /\ IsJsonObject(o.response))
                            => Get(res[i].paperSentiment) = ObjectOf(o.response)
                     /\ (~ o.threw /\ ~ IsJsonObject(o.response))
                            => Get(res[i].paperSentiment) = NeutralHalfAnalysisFailed

\* One prompt threw while a sibling's fenced JSON answer was parsed and kept
C8_Witness ==
    /\ AnalyzedWithSession
    /\ Len(anPapers) >= 2
    /\ Get(anOutcome[1]).threw
    /\ Get(anOutcome[2]) = Responded(<< "FENCE", "{", "B_NEG6", "}", "FENCE" >>)
    /\ Get(Get(anResult)[1].paperSentiment) = NeutralHalfAnalysisFailed
    /\ Get(Get(anResult)[2].paperSentiment).sentiment = << "NEGATIVE" >>

\* C9: after analyzePapers completes with a working session every returned
\* paperSentiment has sentiment in {POSITIVE, NEGATIVE, NEUTRAL} and
\* confidence in [0,1].
C9_SentimentWellFormed ==
    AnalyzedWithSession =>
        \A i \in 1..Len(Get(anResult)) :
            LET ps == Get(Get(anResult)[i].paperSentiment)
            IN  /\ ps.sentiment \in {<< "POSITIVE" >>, << "NEGATIVE" >>, << "NEUTRAL" >>}
                /\ Has(ps.confidence)
                /\ Get(ps.confidence) \in 0..10

\* C7: in every TruthScore of a claim check each breakdown bucket lies in
\* [0,100] and confidence is one of 50, 60, 80, 90.
C7_BreakdownInRange ==
    (anPc = "scored") =>
        LET r == Get(scoreResult)
        IN  /\ r.breakdown.positive \in 0..100
            /\ r.breakdown.negative \in 0..100
            /\ r.breakdown.neutral \in 0..100
            /\ r.confidence \in {50, 60, 80, 90}

---------------------------------------------------------------------------
(* searchHybrid: merge and deduplication, popup.js 353-368 *)

\* String.prototype.toLowerCase on the titles of the model
Lower(t) ==
    CASE t = "Aspirin" -> "aspirin"
      [] t = "ASPIRIN" -> "aspirin"
      [] t = "Statins" -> "statins"
      [] OTHER -> t

\* new Set(semanticPapers.map(p => p.doi).filter(Boolean))
DOIsOf(papers) == {Get(papers[i].doi) : i \in {k \in 1..Len(papers) : Has(papers[k].doi)}}

\* new Set(semanticPapers.map(p => p.title.toLowerCase()))
LowerTitlesOf(papers) == {Lower(papers[i].title) : i \in 1..Len(papers)}

\* Mutant: the title is compared only when the paper has no DOI
IsDuplicateDoiElseTitle(paper, seenDOIs, seenTitles) ==
    IF Has(paper.doi) THEN Get(paper.doi) \in seenDOIs
    ELSE Lower(paper.title) \in seenTitles

\* (paper.doi && seenDOIs.has(paper.doi)) || seenTitles.has(title.toLowerCase())
IsDuplicate(paper, seenDOIs, seenTitles) ==
    \/ Has(paper.doi) /\ Get(paper.doi) \in seenDOIs
    \/ Lower(paper.title) \in seenTitles

\* for (const paper of enrichedPubMed) { ... }
RECURSIVE MergeLoop(_, _, _, _)
MergeLoop(all, seenDOIs, seenTitles, rest) ==
    IF rest = << >> THEN all
    ELSE LET paper == Head(rest)
         IN  IF IsDuplicate(paper, seenDOIs, seenTitles)
             THEN MergeLoop(all, seenDOIs, seenTitles, Tail(rest))
             ELSE MergeLoop(Append(all, paper),
                            IF Has(paper.doi) THEN seenDOIs \cup {Get(paper.doi)}
                                              ELSE seenDOIs,
                            seenTitles \cup {Lower(paper.title)},
                            Tail(rest))

\* const allPapers = [...semanticPapers]; the two Sets; the loop
MergePapers(semantic, enriched) ==
    MergeLoop(semantic, DOIsOf(semantic), LowerTitlesOf(semantic), enriched)

---------------------------------------------------------------------------
(* SpecMerge: the merge on bounded search results *)

MaxMergePapers == 4

MergeTitles == {"Aspirin", "ASPIRIN", "Statins"}

MergeDOIs == {None, Some("10.1/a"), Some("10.1/b")}

SearchResult(t, d, src) == [title |-> t, doi |-> d, source |-> src]

MergeInit ==
    /\ mergeSemantic = << >>
    /\ mergePubMed = << >>
    /\ mergePc = "searching"
    /\ allPapers = << >>
    /\ scorePapers = << >>
    /\ scoreResult = None
    /\ AnalyzeIdle
    /\ PopupLoaded
    /\ RankIdle
    /\ ExtraIdle

\* searchSemanticScholar's list grows by one paper
MergeSemanticResult ==
    /\ mergePc = "searching"
    /\ Len(mergeSemantic) + Len(mergePubMed) < MaxMergePapers
    /\ \E t \in MergeTitles, d \in MergeDOIs :
         mergeSemantic' = Append(mergeSemantic, SearchResult(t, d, "semantic_scholar"))
    /\ UNCHANGED << mergePubMed, mergePc, allPapers, mergeOthers >>

\* searchPubMed's (enriched) list grows by one paper
MergePubMedResult ==
    /\ mergePc = "searching"
    /\ Len(mergeSemantic) + Len(mergePubMed) < MaxMergePapers
    /\ \E t \in MergeTitles, d \in MergeDOIs :
         mergePubMed' = Append(mergePubMed, SearchResult(t, d, "pubmed"))
    /\ UNCHANGED << mergeSemantic, mergePc, allPapers, mergeOthers >>

\* if (pubmedPapers.length === 0 && semanticPapers.length === 0) return ...
MergeBothEmpty ==
    /\ mergePc = "searching"
    /\ Len(mergePubMed) = 0 /\ Len(mergeSemantic) = 0
    /\ mergePc' = "empty"
    /\ UNCHANGED << mergeSemantic, mergePubMed, allPapers, mergeOthers >>

\* Lines 353-368 run to completion
MergeRun ==
    /\ mergePc = "searching"
    /\ ~ (Len(mergePubMed) = 0 /\ Len(mergeSemantic) = 0)
    /\ allPapers' = MergePapers(mergeSemantic, mergePubMed)
    /\ mergePc' = "merged"
    /\ UNCHANGED << mergeSemantic, mergePubMed, mergeOthers >>

MergeNext ==
    \/ MergeSemanticResult
    \/ MergePubMedResult
    \/ MergeBothEmpty
    \/ MergeRun

SpecMerge == MergeInit /\ [][MergeNext]_vars

\* PubMed paper i repeats paper q: equal non-null DOIs or equal lowercased titles
Repeats(p, q) ==
    \/ p.doi # << >> /\ p.doi = q.doi
    \/ Lower(p.title) = Lower(q.title)

\* The PubMed papers the claim C10 keeps: those repeating no Semantic Scholar
\* paper and no PubMed paper kept before them
RECURSIVE KeptPubMed(_, _, _)
KeptPubMed(semantic, kept, rest) ==
    IF rest = << >> THEN kept
    ELSE LET p == Head(rest)
             seen == {semantic[i] : i \in 1..Len(semantic)} \cup {kept[i] : i \in 1..Len(kept)}
         IN  IF \E q \in seen : Repeats(p, q)
             THEN KeptPubMed(semantic, kept, Tail(rest))
             ELSE KeptPubMed(semantic, Append(kept, p), Tail(rest))

\* C10: the merged list is all Semantic Scholar results in their order
\* followed, in PubMed order, by exactly the PubMed papers whose DOI and
\* lowercased title equal none already seen; a PubMed paper sharing its
\* lowercased title with a Semantic Scholar paper is not in the list.
C10_MergeOrderAndDedup ==
    (mergePc = "merged") =>
        /\ allPapers = mergeSemantic \o KeptPubMed(mergeSemantic, << >>, mergePubMed)
        /\ \A i \in 1..Len(allPapers) :
             allPapers[i].source = "pubmed" =>
                \A k \in 1..Len(mergeSemantic) :
                    Lower(allPapers[i].title) # Lower(mergeSemantic[k].title)

\* A PubMed paper with its own DOI was dropped for its title's case-folded
\* match with a Semantic Scholar paper, and another PubMed paper was kept
C10_Witness ==
    /\ mergePc = "merged"
    /\ Len(mergeSemantic) = 1 /\ Len(mergePubMed) = 2
    /\ mergeSemantic[1] = SearchResult("Aspirin", Some("10.1/a"), "semantic_scholar")
    /\ mergePubMed[1] = SearchResult("ASPIRIN", Some("10.1/b"), "pubmed")
    /\ mergePubMed[2] = SearchResult("Statins", None, "pubmed")
    /\ allPapers = << mergeSemantic[1], mergePubMed[2] >>

\* C11: the merged list that searchHybrid hands to the abstract backfill and
\* the ranking holds no two papers with the same non-null DOI and no two
\* papers with the same lowercased title, whatever the two searches returned.
C11_MergedHasNoDuplicates ==
    (mergePc = "merged") =>
        \A i, k \in 1..Len(allPapers) :
            i # k => ~ Repeats(allPapers[i], allPapers[k])

\* The same property for the lists C11 does hold for: those in which the
\* Semantic Scholar results do not repeat one another
C11_SemanticRepeatsAreKept ==
    (mergePc = "merged") =>
        \A i, k \in 1..Len(allPapers) :
            (i < k /\ Repeats(allPapers[i], allPapers[k])) =>
                /\ allPapers[i].source = "semantic_scholar"
                /\ allPapers[k].source = "semantic_scholar"

---------------------------------------------------------------------------
(* The claim check: onCheckClick (popup.js 961-1073) driving searchHybrid  *)
(* (332-398), summarizeAbstracts, analyzePapers, calculateTruthScore, the  *)
(* narrative prompt and translateText.  One action per resumption of the   *)
(* async code: a settled fetch, session creation, prompt or Promise.all.   *)

\* String.prototype.trim on the inputs of the model
Trim(t) == IF t = "  " THEN "" ELSE t

ClaimInputs == {"", "  ", "vitamin D prevents colds"}

Languages == {"en", "es"}

\* A paper of the pipeline; undefined properties are << >>.  The results of
\* the model have as many citations as influential citations.
PipelinePaper(t, d, id, abs, src, infl, a) ==
    [title |-> t, doi |-> d, pmid |-> id, abstract |-> abs, source |-> src,
     citations |-> infl, influentialCitations |-> infl, age |-> a,
     qualityScore |-> None,
     studyMetadata |-> None, summary |-> None, paperSentiment |-> None]

\* Papers searchPubMed maps from esummary (no abstract, no citation counts)
PubMedAspirin ==
    PipelinePaper("Aspirin", Some("10.1/a"), Some("1"), FALSE, "pubmed", None, 0)

PubMedStatins ==
    PipelinePaper("Statins", None, Some("2"), FALSE, "pubmed", None, 25)

PubMedLists == { << >>, << PubMedAspirin >>, << PubMedAspirin, PubMedStatins >> }

\* A result of Semantic Scholar carrying an abstract
SemanticAspirin ==
    PipelinePaper("ASPIRIN", None, None, TRUE, "semantic_scholar", Some(9), 10)

\* A result Semantic Scholar holds no abstract for
SemanticOmega ==
    PipelinePaper("omega-3", None, None, FALSE, "semantic_scholar", Some(0), 0)

\* The data array of a Semantic Scholar answer
SemanticLists ==
    { << >>, << SemanticAspirin >>, << SemanticOmega >>,
      << SemanticOmega, SemanticAspirin >> }

\* Everything a check computes, as a new check finds it
CheckDataReset ==
    /\ medicalQuery' = ""
    /\ pubmedPapers' = None
    /\ semanticPapers' = None
    /\ failedSources' = {}
    /\ branches' = << >>
    /\ work' = << >>
    /\ pubmedResults' = None
    /\ summaries' = << >>
    /\ truthScore' = None
    /\ narrativeCalls' = 0
    /\ translateCalls' = 0
    /\ analysis' = None

\* A click on #checkButton (a disabled button dispatches no click): the
\* empty-claim alert, or lines 974-988 up to rephraseToMedicalQuery's
\* await getLanguageModelSession()
onCheckClick ==
    /\ pc = "idle"
    /\ ~ button.disabled
    /\ \E input \in ClaimInputs, lang \in Languages :
         IF Trim(input) = ""
         THEN /\ alertShown' = TRUE
              /\ UNCHANGED << pc, inputVars, button, resultsView, sessionVars,
                              searchVars, branches, dataVars, callVars >>
         ELSE /\ claim' = Trim(input)
              /\ language' = lang
              /\ alertShown' = FALSE
              /\ button' = [disabled |-> TRUE, text |-> "Researching..."]
              /\ resultsView' = "progress"
              /\ CheckDataReset
              /\ pc' = "rephraseSession"
              /\ UNCHANGED sessionVars
    /\ UNCHANGED checkOthers

\* Mutant: the cache is not consulted, every call creates a session
SessionObtainedUncached(kind) ==
    /\ cachedSessions' = [cachedSessions EXCEPT ![kind] = TRUE]
    /\ sessionsCreated' = [sessionsCreated EXCEPT ![kind] = @ + 1]

\* getLanguageModelSession / getSummarizerSession returns a session: the
\* cached one, or, the cache entry being null, the one create() resolves
\* with, which it stores
SessionObtained(kind) ==
    /\ cachedSessions' = [cachedSessions EXCEPT ![kind] = TRUE]
    /\ sessionsCreated' = IF cachedSessions[kind] THEN sessionsCreated
                          ELSE [sessionsCreated EXCEPT ![kind] = @ + 1]

\* getLanguageModelSession() throws (API missing or LanguageModel.create
\* rejects): rephraseToMedicalQuery's catch returns the fallback keywords,
\* and searchHybrid issues both searches
RephraseSessionFails ==
    /\ pc = "rephraseSession"
    /\ ~ cachedSessions.languageModel
    /\ medicalQuery' = "fallback"
    /\ pc' = "search"
    /\ UNCHANGED << inputVars, uiVars, sessionVars, pubmedPapers, semanticPapers,
                    failedSources, branches, dataVars, callVars, checkOthers >>

\* getLanguageModelSession() returns the cached or the newly created session
RephraseSessionReady ==
    /\ pc = "rephraseSession"
    /\ SessionObtained("languageModel")
    /\ pc' = "rephrasePrompt"
    /\ UNCHANGED << inputVars, uiVars, searchVars, branches, dataVars, callVars,
                    checkOthers >>

\* session.prompt(prompt) settles: the trimmed query, or the catch's fallback
RephrasePromptSettles ==
    /\ pc = "rephrasePrompt"
    /\ \E q \in {"rephrased", "fallback"} : medicalQuery' = q
    /\ pc' = "search"
    /\ UNCHANGED << inputVars, uiVars, sessionVars, pubmedPapers, semanticPapers,
                    failedSources, branches, dataVars, callVars, checkOthers >>

\* How a search request ends: answered with the results in data, answered
\* with an error status, not answered at all, or answered with a body that
\* is not the expected JSON
SearchOutcome(st, data) == [status |-> st, data |-> data]

PubMedOutcomes ==
    {SearchOutcome("ok", l) : l \in PubMedLists}
        \cup {SearchOutcome(st, << >>) : st \in {"network", "malformed"}}

SemanticOutcomes ==
    {SearchOutcome("ok", l) : l \in SemanticLists}
        \cup {SearchOutcome(st, << >>) : st \in {"429", "500", "network", "malformed"}}

\* searchPubMed: the mapped papers, or [] from its catch
searchPubMed(outcome) ==
    IF outcome.status = "ok" THEN outcome.data ELSE << >>

\* searchSemanticScholar: [] for a 429, [] from its catch for another error
\* status, a network failure or a malformed body, else the results that
\* carry an abstract
searchSemanticScholar(outcome) ==
    IF outcome.status = "ok"
    THEN SelectSeq(outcome.data, LAMBDA paper : paper.abstract)
    ELSE << >>

\* searchPubMed(medicalQuery) settles
PubMedSettles ==
    /\ pc = "search"
    /\ pubmedPapers = None
    /\ \E outcome \in PubMedOutcomes :
         /\ pubmedPapers' = Some(searchPubMed(outcome))
         /\ failedSources' = IF outcome.status = "ok" THEN failedSources
                             ELSE failedSources \cup {"pubmed"}
    /\ UNCHANGED << pc, inputVars, uiVars, sessionVars, medicalQuery,
                    semanticPapers, branches, dataVars, callVars, checkOthers >>

\* searchSemanticScholar(medicalQuery) settles
SemanticSettles ==
    /\ pc = "search"
    /\ semanticPapers = None
    /\ \E outcome \in SemanticOutcomes :
         /\ semanticPapers' = Some(searchSemanticScholar(outcome))
         /\ failedSources' = IF outcome.status = "ok" THEN failedSources
                             ELSE failedSources \cup {"semantic_scholar"}
    /\ UNCHANGED << pc, inputVars, uiVars, sessionVars, medicalQuery,
                    pubmedPapers, branches, dataVars, callVars, checkOthers >>

\* What searchHybrid returns
HybridResult(ps, q) == [papers |-> ps, count |-> Len(ps), medicalQuery |-> q]

\* Mutant: one empty list is enough for the early return
NoPapersFoundEither(pubmed, semantic) == Len(pubmed) = 0 \/ Len(semantic) = 0

\* pubmedPapers.length === 0 && semanticPapers.length === 0
NoPapersFound(pubmed, semantic) == Len(pubmed) = 0 /\ Len(semantic) = 0

\* Mutant: searchHybrid goes on as soon as searchPubMed has settled and takes
\* a searchSemanticScholar still pending for an empty list
SearchJoinPubMedOnly ==
    /\ pc = "search"
    /\ Has(pubmedPapers)
    /\ semanticPapers' = IF Has(semanticPapers) THEN semanticPapers ELSE Some(<< >>)
    /\ IF NoPapersFound(Get(pubmedPapers), Get(semanticPapers'))
       THEN /\ pubmedResults' = Some(HybridResult(<< >>, medicalQuery))
            /\ pc' = "hybridReturned"
            /\ UNCHANGED branches
       ELSE /\ branches' = [i \in 1..Len(Get(pubmedPapers)) |-> None]
            /\ pc' = "enrich"
            /\ UNCHANGED pubmedResults
    /\ UNCHANGED << inputVars, uiVars, sessionVars, medicalQuery, pubmedPapers,
                    failedSources, work, summaries, truthScore, analysis, callVars,
                    checkOthers >>

\* Promise.all of the two searches resolves: the early return of lines
\* 345-348, or enrichPubMedWithCitations issuing one lookup chain per paper
SearchJoin ==
    /\ pc = "search"
    /\ Has(pubmedPapers) /\ Has(semanticPapers)
    /\ IF NoPapersFound(Get(pubmedPapers), Get(semanticPapers))
       THEN /\ pubmedResults' = Some(HybridResult(<< >>, medicalQuery))
            /\ pc' = "hybridReturned"
            /\ UNCHANGED branches
       ELSE /\ branches' = [i \in 1..Len(Get(pubmedPapers)) |-> None]
            /\ pc' = "enrich"
            /\ UNCHANGED pubmedResults
    /\ UNCHANGED << inputVars, uiVars, sessionVars, searchVars, work, summaries,
                    truthScore, analysis, callVars, checkOthers >>

\* What the DOI / PMID lookups of one paper end with: no s2Data (not found,
\* rate limited, network error), or the record Semantic Scholar holds
NoS2Data == None

S2Data(infl, abs) ==
    Some([citationCount |-> infl, influentialCitationCount |-> infl, abstract |-> abs])

S2Lookups == { NoS2Data, S2Data(0, FALSE), S2Data(99, TRUE) }

\* The value one callback of enrichPubMedWithCitations returns
Enriched(paper, s2Data) ==
    IF Has(s2Data)
    THEN [paper EXCEPT !.citations = Some(Get(s2Data).citationCount),
                       !.influentialCitations = Some(Get(s2Data).influentialCitationCount),
                       !.abstract = Get(s2Data).abstract \/ paper.abstract]
    ELSE [paper EXCEPT !.citations = Some(0), !.influentialCitations = Some(0)]

\* The Promise.all slots still pending
Pending == {i \in 1..Len(branches) : ~ Has(branches[i])}

\* One paper's lookups of enrichPubMedWithCitations settle
EnrichSettles ==
    /\ pc = "enrich"
    /\ \E i \in Pending, s2Data \in S2Lookups :
         branches' = [branches EXCEPT ![i] = Some(Enriched(Get(pubmedPapers)[i], s2Data))]
    /\ UNCHANGED << pc, inputVars, uiVars, sessionVars, searchVars, dataVars,
                    callVars, checkOthers >>

\* papers.filter(p => !p.abstract && p.pmid), as the slots of the for-of loop
NeedsAbstract(p) == ~ p.abstract /\ Has(p.pmid)

\* Promise.all of the enrichment resolves; the merge of lines 353-368 runs and
\* fetchMissingAbstracts starts on the merged list
EnrichJoin ==
    /\ pc = "enrich"
    /\ Pending = {}
    /\ LET enrichedPubMed == [i \in 1..Len(branches) |-> Get(branches[i])]
           merged == MergePapers(Get(semanticPapers), enrichedPubMed)
       IN  /\ work' = merged
           /\ branches' = [i \in 1..Len(merged) |->
                              IF NeedsAbstract(merged[i]) THEN None ELSE Some("kept")]
    /\ pc' = "backfill"
    /\ UNCHANGED << inputVars, uiVars, sessionVars, searchVars, pubmedResults,
                    summaries, truthScore, analysis, callVars, checkOthers >>

\* One turn of fetchMissingAbstracts' for-of loop: efetch answers with an
\* AbstractText element, or without one / the fetch throws
BackfillSettles ==
    /\ pc = "backfill"
    /\ Pending # {}
    /\ LET i == CHOOSE k \in Pending : \A j \in Pending : k <= j
       IN  \E found \in BOOLEAN :
             /\ work' = [work EXCEPT ![i].abstract = found]
             /\ branches' = [branches EXCEPT ![i] = Some("fetched")]
    /\ UNCHANGED << pc, inputVars, uiVars, sessionVars, searchVars, pubmedResults,
                    summaries, truthScore, analysis, callVars, checkOthers >>

\* Math.log10(influentialCount + 1) on the counts of the model
\* (log10(1001) = 3.0004 is held as 3: no other score of the model lies
\* within that distance of a score built from it)
Log10(n) ==
    CASE n = 1 -> 0
      [] n = 10 -> 1
      [] n = 100 -> 2
      [] n = 1001 -> 3

\* influentialScore * 0.6 + recencyScore * 0.4, in 350ths
QualityScore(paper) ==
    LET influentialCount == IF Has(paper.influentialCitations)
                            THEN Get(paper.influentialCitations) ELSE 0
    IN  60 * Log10(influentialCount + 1) + Max(0, 140 - 7 * paper.age)

\* Mutant: the comparator sorts ascending
CompareQualityAscending(a, b) == Get(a.qualityScore) - Get(b.qualityScore)

\* (a, b) => b.qualityScore - a.qualityScore
CompareQuality(a, b) == Get(b.qualityScore) - Get(a.qualityScore)

\* scoredPapers.sort(...): Array.prototype.sort is stable, so a paper goes
\* behind every paper the comparator does not put after it
RECURSIVE InsertByQuality(_, _)
InsertByQuality(sorted, paper) ==
    IF sorted = << >> THEN << paper >>
    ELSE IF CompareQuality(Head(sorted), paper) <= 0
         THEN << Head(sorted) >> \o InsertByQuality(Tail(sorted), paper)
         ELSE << paper >> \o sorted

RECURSIVE SortByQuality(_)
SortByQuality(papers) ==
    IF papers = << >> THEN << >>
    ELSE InsertByQuality(SortByQuality(SubSeq(papers, 1, Len(papers) - 1)),
                         papers[Len(papers)])

rankPapersByQualityScore(papers) ==
    SortByQuality([i \in 1..Len(papers) |->
                      [papers[i] EXCEPT !.qualityScore = Some(QualityScore(papers[i]))]])

TopN == 5

\* Mutant: the ranked list is returned whole
Top5Uncapped(papers) == papers

\* rankedPapers.slice(0, 5)
Top5(papers) == SubSeq(papers, 1, Min(TopN, Len(papers)))

\* Mutant: papers without an abstract are not removed
PapersWithAbstractsUnfiltered(papers) == papers

\* allPapers.filter(p => p.abstract)
PapersWithAbstracts(papers) == SelectSeq(papers, LAMBDA p : p.abstract)

\* fetchMissingAbstracts returns; lines 376-385 up to extractStudyMetadata's
\* await getLanguageModelSession()
BackfillDone ==
    /\ pc = "backfill"
    /\ Pending = {}
    /\ work' = Top5(rankPapersByQualityScore(PapersWithAbstracts(work)))
    /\ branches' = << >>
    /\ pc' = "metadataSession"
    /\ UNCHANGED << inputVars, uiVars, sessionVars, searchVars, pubmedResults,
                    summaries, truthScore, analysis, callVars, checkOthers >>

\* extractStudyMetadata's getLanguageModelSession() throws: the outer catch
\* returns the papers as they are, and searchHybrid returns
MetadataSessionFails ==
    /\ pc = "metadataSession"
    /\ ~ cachedSessions.languageModel
    /\ pubmedResults' = Some(HybridResult(work, medicalQuery))
    /\ pc' = "hybridReturned"
    /\ UNCHANGED << inputVars, uiVars, sessionVars, searchVars, branches, work,
                    summaries, truthScore, analysis, callVars, checkOthers >>

\* The session is there: one prompt per paper is issued
MetadataSessionReady ==
    /\ pc = "metadataSession"
    /\ SessionObtained("languageModel")
    /\ branches' = [i \in 1..Len(work) |-> None]
    /\ pc' = "metadata"
    /\ UNCHANGED << inputVars, uiVars, searchVars, dataVars, callVars, checkOthers >>

\* What one metadata callback stores: the parsed object, or null from its catch
StudyMetadataValues == {"RCT", "null"}

MetadataSettles ==
    /\ pc = "metadata"
    /\ \E i \in Pending, m \in StudyMetadataValues :
         branches' = [branches EXCEPT ![i] = Some([work[i] EXCEPT !.studyMetadata = Some(m)])]
    /\ UNCHANGED << pc, inputVars, uiVars, sessionVars, searchVars, dataVars,
                    callVars, checkOthers >>

\* Mutant: extractStudyMetadata gives up on the prompts still pending and
\* returns those papers as they are
MetadataJoinGivesUp ==
    /\ pc = "metadata"
    /\ LET papersWithMetadata == [i \in 1..Len(branches) |->
                                     IF Has(branches[i]) THEN Get(branches[i])
                                     ELSE work[i]]
       IN  /\ work' = papersWithMetadata
           /\ pubmedResults' = Some(HybridResult(papersWithMetadata, medicalQuery))
    /\ branches' = << >>
    /\ pc' = "hybridReturned"
    /\ UNCHANGED << inputVars, uiVars, sessionVars, searchVars, summaries,
                    truthScore, analysis, callVars, checkOthers >>

\* Promise.all(metadataPromises) resolves and searchHybrid returns
MetadataJoin ==
    /\ pc = "metadata"
    /\ Pending = {}
    /\ LET papersWithMetadata == [i \in 1..Len(branches) |-> Get(branches[i])]
       IN  /\ work' = papersWithMetadata
           /\ pubmedResults' = Some(HybridResult(papersWithMetadata, medicalQuery))
    /\ branches' = << >>
    /\ pc' = "hybridReturned"
    /\ UNCHANGED << inputVars, uiVars, sessionVars, searchVars, summaries,
                    truthScore, analysis, callVars, checkOthers >>

\* Mutant: the check for an empty result is never taken
NoResearchNever(result) == FALSE

\* Mutant: a single paper is not enough to go on
NoResearchBelowTwo(result) == result.count < 2

\* pubmedResults.count === 0
NoResearch(result) == result.count = 0

\* Mutant: the early return for an empty result leaves the button as it is
SearchReturnsButtonKept ==
    /\ pc = "hybridReturned"
    /\ IF NoResearch(Get(pubmedResults))
       THEN /\ resultsView' = "noResearch"
            /\ pc' = "idle"
            /\ UNCHANGED << button, summaries >>
       ELSE /\ IF Len(Get(pubmedResults).papers) = 0
               THEN summaries' = << >> /\ pc' = "summarized"
               ELSE UNCHANGED summaries /\ pc' = "summarizerSession"
            /\ UNCHANGED << button, resultsView >>
    /\ UNCHANGED << inputVars, alertShown, sessionVars, searchVars, branches, work,
                    pubmedResults, truthScore, analysis, callVars, checkOthers >>

\* onCheckClick resumes with searchHybrid's result: "No Research Found" and
\* return, or on to summarizeAbstracts (which returns [] for no abstracts)
SearchReturns ==
    /\ pc = "hybridReturned"
    /\ IF NoResearch(Get(pubmedResults))
       THEN /\ resultsView' = "noResearch"
            /\ button' = ButtonReady
            /\ pc' = "idle"
            /\ UNCHANGED summaries
       ELSE /\ IF Len(Get(pubmedResults).papers) = 0
               THEN summaries' = << >> /\ pc' = "summarized"
               ELSE UNCHANGED summaries /\ pc' = "summarizerSession"
            /\ UNCHANGED << button, resultsView >>
    /\ UNCHANGED << inputVars, alertShown, sessionVars, searchVars, branches, work,
                    pubmedResults, truthScore, analysis, callVars, checkOthers >>

\* { title, summary } of summarizeAbstracts
Summary(paper, text) == [title |-> paper.title, summary |-> text]

\* getSummarizerSession() throws: every abstract is truncated
SummarizerSessionFails ==
    /\ pc = "summarizerSession"
    /\ ~ cachedSessions.summarizer
    /\ summaries' = [i \in 1..Len(work) |-> Summary(work[i], "truncated")]
    /\ pc' = "summarized"
    /\ UNCHANGED << inputVars, uiVars, sessionVars, searchVars, branches, work,
                    pubmedResults, truthScore, analysis, callVars, checkOthers >>

SummarizerSessionReady ==
    /\ pc = "summarizerSession"
    /\ SessionObtained("summarizer")
    /\ branches' = [i \in 1..Len(work) |-> None]
    /\ pc' = "summarize"
    /\ UNCHANGED << inputVars, uiVars, searchVars, dataVars, callVars, checkOthers >>

\* summarizer.summarize(item.abstract) settles: its summary, or the catch's
\* truncated abstract
SummarizeSettles ==
    /\ pc = "summarize"
    /\ \E i \in Pending, text \in {"summary", "truncated"} :
         branches' = [branches EXCEPT ![i] = Some(Summary(work[i], text))]
    /\ UNCHANGED << pc, inputVars, uiVars, sessionVars, searchVars, dataVars,
                    callVars, checkOthers >>

SummarizeJoin ==
    /\ pc = "summarize"
    /\ Pending = {}
    /\ summaries' = [i \in 1..Len(branches) |-> Get(branches[i])]
    /\ branches' = << >>
    /\ pc' = "summarized"
    /\ UNCHANGED << inputVars, uiVars, sessionVars, searchVars, work, pubmedResults,
                    truthScore, analysis, callVars, checkOthers >>

\* summaries.find(s => s.title === paper.title)?.summary || ...
SummaryFor(paper, found) ==
    LET hits == SelectSeq(found, LAMBDA s : s.title = paper.title)
    IN  IF hits # << >> THEN Head(hits).summary
        ELSE IF paper.abstract THEN "truncated" ELSE "No summary available"

\* Lines 1011-1022: the summaries are merged into the papers and
\* analyzePapers starts (it returns an empty list as it is)
SummariesMerged ==
    /\ pc = "summarized"
    /\ work' = [i \in 1..Len(work) |->
                   [work[i] EXCEPT !.summary = Some(SummaryFor(work[i], summaries))]]
    /\ pc' = IF Len(work) = 0 THEN "analyzed" ELSE "analysisSession"
    /\ UNCHANGED << inputVars, uiVars, sessionVars, searchVars, branches,
                    pubmedResults, summaries, truthScore, analysis, callVars,
                    checkOthers >>

\* analyzePapers' getLanguageModelSession() throws: the outer catch returns
\* the papers without paperSentiment
AnalysisSessionFails ==
    /\ pc = "analysisSession"
    /\ ~ cachedSessions.languageModel
    /\ pc' = "analyzed"
    /\ UNCHANGED << inputVars, uiVars, sessionVars, searchVars, branches, dataVars,
                    callVars, checkOthers >>

AnalysisSessionReady ==
    /\ pc = "analysisSession"
    /\ SessionObtained("languageModel")
    /\ branches' = [i \in 1..Len(work) |-> None]
    /\ pc' = "analysis"
    /\ UNCHANGED << inputVars, uiVars, searchVars, dataVars, callVars, checkOthers >>

\* How the sentiment prompts of a check settle
CheckOutcomes ==
    { Threw,
      Responded(<< "{", "B_POS8", "}" >>),
      Responded(<< "FENCE", "{", "B_NEG6", "}", "FENCE" >>) }

AnalysisSettles ==
    /\ pc = "analysis"
    /\ \E i \in Pending, outcome \in CheckOutcomes :
         branches' = [branches EXCEPT ![i] = Some(outcome)]
    /\ UNCHANGED << pc, inputVars, uiVars, sessionVars, searchVars, dataVars,
                    callVars, checkOthers >>

AnalysisJoin ==
    /\ pc = "analysis"
    /\ Pending = {}
    /\ work' = AnalysedPapers(work, branches)
    /\ branches' = << >>
    /\ pc' = "analyzed"
    /\ UNCHANGED << inputVars, uiVars, sessionVars, searchVars, pubmedResults,
                    summaries, truthScore, analysis, callVars, checkOthers >>

\* Lines 1026-1043: pubmedResults.papers is replaced, the Truth Score is
\* calculated, the prompt is built, up to await getLanguageModelSession()
ScoreCheck ==
    /\ pc = "analyzed"
    /\ pubmedResults' = Some([Get(pubmedResults) EXCEPT !.papers = work])
    /\ truthScore' = Some(calculateTruthScore(work, Get(pubmedResults).count))
    /\ pc' = "narrativeSession"
    /\ UNCHANGED << inputVars, uiVars, sessionVars, searchVars, branches, work,
                    summaries, analysis, callVars, checkOthers >>

\* Line 1043 throws: onCheckClick's catch shows the error, finally restores
\* the button
NarrativeSessionFails ==
    /\ pc = "narrativeSession"
    /\ ~ cachedSessions.languageModel
    /\ resultsView' = "error"
    /\ button' = ButtonReady
    /\ pc' = "idle"
    /\ UNCHANGED << inputVars, alertShown, sessionVars, searchVars, branches,
                    dataVars, callVars, checkOthers >>

\* session.prompt(prompt) of line 1044 is issued
NarrativeSessionReady ==
    /\ pc = "narrativeSession"
    /\ SessionObtained("languageModel")
    /\ narrativeCalls' = narrativeCalls + 1
    /\ pc' = "narrative"
    /\ UNCHANGED << inputVars, uiVars, searchVars, branches, dataVars, translateCalls,
                    checkOthers >>

\* Mutant: a rejected narrative prompt is issued once more
NarrativeRejectsRetried ==
    /\ pc = "narrative"
    /\ IF narrativeCalls < 2
       THEN pc' = "narrativeSession" /\ UNCHANGED << button, resultsView >>
       ELSE resultsView' = "error" /\ button' = ButtonReady /\ pc' = "idle"
    /\ UNCHANGED << inputVars, alertShown, sessionVars, searchVars, branches,
                    dataVars, callVars, checkOthers >>

\* The narrative prompt rejects: catch and finally
NarrativeRejects ==
    /\ pc = "narrative"
    /\ resultsView' = "error"
    /\ button' = ButtonReady
    /\ pc' = "idle"
    /\ UNCHANGED << inputVars, alertShown, sessionVars, searchVars, branches,
                    dataVars, callVars, checkOthers >>

\* The narrative prompt resolves: translateText is called for a language
\* other than 'en', else displayResults and finally
NarrativeResolves ==
    /\ pc = "narrative"
    /\ analysis' = Some("narrative")
    /\ IF language # "en"
       THEN /\ translateCalls' = translateCalls + 1
            /\ pc' = "translate"
            /\ UNCHANGED << button, resultsView, narrativeCalls >>
       ELSE /\ resultsView' = "result"
            /\ button' = ButtonReady
            /\ pc' = "idle"
            /\ UNCHANGED callVars
    /\ UNCHANGED << inputVars, alertShown, sessionVars, searchVars, branches, work,
                    pubmedResults, summaries, truthScore, checkOthers >>

\* How translateText's awaits end: both resolve, getTranslatorSession throws
\* (no Translator API, or Translator.create rejects), translate rejects
TranslateOutcomes == {"ok", "noSession", "rejected"}

\* Mutant: the catch returns an empty text
translateTextBlankOnFailure(text, outcome) ==
    IF outcome = "ok" THEN "translated" ELSE ""

\* translateText: the translation, or the text it was given from its catch
translateText(text, outcome) ==
    IF outcome = "ok" THEN "translated" ELSE text

\* translateText settles; displayResults and finally
TranslateSettles ==
    /\ pc = "translate"
    /\ \E outcome \in TranslateOutcomes :
         analysis' = Some(translateText(Get(analysis), outcome))
    /\ resultsView' = "result"
    /\ button' = ButtonReady
    /\ pc' = "idle"
    /\ UNCHANGED << inputVars, alertShown, sessionVars, searchVars, branches, work,
                    pubmedResults, summaries, truthScore, callVars, checkOthers >>

Init ==
    /\ scorePapers = << >>
    /\ scoreResult = None
    /\ allPapers = << >>
    /\ AnalyzeIdle
    /\ MergeIdle
    /\ PopupLoaded
    /\ RankIdle
    /\ ExtraIdle

Next ==
    \/ onCheckClick
    \/ RephraseSessionFails
    \/ RephraseSessionReady
    \/ RephrasePromptSettles
    \/ PubMedSettles
    \/ SemanticSettles
    \/ SearchJoin
    \/ EnrichSettles
    \/ EnrichJoin
    \/ BackfillSettles
    \/ BackfillDone
    \/ MetadataSessionFails
    \/ MetadataSessionReady
    \/ MetadataSettles
    \/ MetadataJoin
    \/ SearchReturns
    \/ SummarizerSessionFails
    \/ SummarizerSessionReady
    \/ SummarizeSettles
    \/ SummarizeJoin
    \/ SummariesMerged
    \/ AnalysisSessionFails
    \/ AnalysisSessionReady
    \/ AnalysisSettles
    \/ AnalysisJoin
    \/ ScoreCheck
    \/ NarrativeSessionFails
    \/ NarrativeSessionReady
    \/ NarrativeRejects
    \/ NarrativeResolves
    \/ TranslateSettles

Spec == Init /\ [][Next]_vars

\* Both searches of the current check resolved with an empty list
BothSearchesEmpty ==
    /\ Has(pubmedPapers) /\ Get(pubmedPapers) = << >>
    /\ Has(semanticPapers) /\ Get(semanticPapers) = << >>

\* C1: when searchPubMed and searchSemanticScholar both return an empty
\* list, searchHybrid returns papers = [] and count = 0, and the check ends
\* showing "No Research Found": it goes from the search straight to
\* searchHybrid's return and from there to the end, the narrative prompt is
\* never issued, and no result is displayed.
C1_BothEmptyEndsNoResearch ==
    BothSearchesEmpty =>
        /\ pc \in {"search", "hybridReturned", "idle"}
        /\ narrativeCalls = 0
        /\ translateCalls = 0
        /\ truthScore = None
        /\ resultsView # "result"
        /\ pc \in {"hybridReturned", "idle"} =>
              /\ Has(pubmedResults)
              /\ Get(pubmedResults).papers = << >>
              /\ Get(pubmedResults).count = 0
        /\ pc = "hybridReturned" => resultsView = "progress" /\ button.disabled
        /\ pc = "idle" => resultsView = "noResearch" /\ button = ButtonReady

\* C1 witness: a check whose two searches both came back empty has ended
C1_Witness ==
    /\ BothSearchesEmpty
    /\ pc = "idle"
    /\ claim = "vitamin D prevents colds"
    /\ Get(pubmedResults) = HybridResult(<< >>, medicalQuery)
    /\ resultsView = "noResearch"
    /\ narrativeCalls = 0

\* Every paper of the list carries a (non-empty) abstract
AllHaveAbstracts(papers) == \A i \in 1..Len(papers) : papers[i].abstract

\* C12: every paper searchHybrid returns, and so every paper summarised,
\* analysed, scored or displayed, has a non-empty abstract: Semantic Scholar
\* results without one are dropped at search time, and a merged paper still
\* without one after the PubMed backfill is removed before ranking.
C12_EveryPaperHasAbstract ==
    /\ Has(semanticPapers) => AllHaveAbstracts(Get(semanticPapers))
    /\ pc # "backfill" => AllHaveAbstracts(work)
    /\ Has(pubmedResults) => AllHaveAbstracts(Get(pubmedResults).papers)
    /\ \A i \in 1..Len(summaries) :
         \E k \in 1..Len(work) :
            work[k].title = summaries[i].title /\ work[k].abstract

\* C12 witness: a result is on show for one of two PubMed papers, the other
\* having been removed for want of an abstract (nothing else could remove it:
\* Semantic Scholar contributed no paper)
C12_Witness ==
    /\ pc = "idle"
    /\ resultsView = "result"
    /\ Len(Get(pubmedPapers)) = 2
    /\ Get(semanticPapers) = << >>
    /\ Len(Get(pubmedResults).papers) = 1
    /\ Len(summaries) = 1
    /\ Has(Get(pubmedResults).papers[1].paperSentiment)

\* Both searches of the current check have settled
SearchesSettled == Has(pubmedPapers) /\ Has(semanticPapers)

\* The check has ended and step 6 failed: the session could not be had, or
\* its one prompt rejected
NarrativeFailed ==
    /\ pc = "idle"
    /\ truthScore # None
    /\ analysis = None
    /\ \/ narrativeCalls = 1
       \/ narrativeCalls = 0 /\ ~ cachedSessions.languageModel

\* The list the other source resolved with
OtherSourcePapers ==
    IF failedSources = {"pubmed"} THEN Get(semanticPapers) ELSE Get(pubmedPapers)

\* C15: when exactly one of the two searches fails (a 429 or another error
\* status from Semantic Scholar, a network failure or a malformed body from
\* either) the failing search contributes an empty list and no error reaches
\* the user for it; if the other source returned a paper that has or obtains
\* an abstract, the check goes on through ranking, scoring and the narrative
\* with that source's papers.
C15_OneSourceFailureTolerated ==
    (SearchesSettled /\ Cardinality(failedSources) = 1) =>
        /\ "pubmed" \in failedSources => Get(pubmedPapers) = << >>
        /\ "semantic_scholar" \in failedSources => Get(semanticPapers) = << >>
        /\ resultsView = "error" => NarrativeFailed
        /\ (failedSources = {"pubmed"} /\ OtherSourcePapers # << >>) =>
              /\ pc # "hybridReturned" => resultsView # "noResearch"
              /\ Has(pubmedResults) => Get(pubmedResults).count > 0
        /\ (Has(pubmedResults) /\ Get(pubmedResults).count > 0) =>
              /\ resultsView # "noResearch"
              /\ \A i \in 1..Len(work) :
                   /\ work[i].source \notin failedSources
                   /\ Has(work[i].qualityScore)
                   /\ \E k \in 1..Len(OtherSourcePapers) :
                        OtherSourcePapers[k].title = work[i].title
              /\ pc = "idle" =>
                    /\ truthScore # None
                    /\ Get(truthScore).paperCount = Get(pubmedResults).count
                    /\ resultsView = "result" \/ NarrativeFailed
                    /\ resultsView = "result" => narrativeCalls = 1 /\ analysis # None

\* C15 witness: Semantic Scholar failed, PubMed's paper obtained an abstract,
\* and the check ended with a result on show
C15_Witness ==
    /\ pc = "idle"
    /\ failedSources = {"semantic_scholar"}
    /\ Get(pubmedPapers) # << >>
    /\ Get(pubmedResults).count > 0
    /\ truthScore # None
    /\ narrativeCalls = 1
    /\ resultsView = "result"

\* C16 as stated: a check ends with "No Research Found" only if both
\* searches returned zero results; whenever a source returned a paper the
\* check reaches the Truth Score calculation.
C16_NoEvidenceOnlyWhenBothEmpty ==
    /\ resultsView = "noResearch" => BothSearchesEmpty
    /\ (pc = "idle" /\ SearchesSettled /\ ~ BothSearchesEmpty) => truthScore # None

\* C16 as the code has it: a check ends with "No Research Found", before any
\* scoring, exactly when searchHybrid returns no paper, which is when both
\* searches returned zero results or when no retrieved paper has an abstract
\* after the backfill; whenever searchHybrid returns a paper the check
\* reaches the Truth Score calculation.
C16_NoEvidenceOnlyWhenNoPaperReturned ==
    /\ resultsView = "noResearch" =>
          /\ pc = "idle"
          /\ Has(pubmedResults) /\ Get(pubmedResults).count = 0
          /\ Get(pubmedResults).papers = << >>
          /\ truthScore = None
          /\ narrativeCalls = 0
          /\ \/ BothSearchesEmpty
             \/ /\ Get(semanticPapers) = << >>
                /\ Get(pubmedPapers) # << >>
                /\ work = << >>
    /\ (pc = "idle" /\ Has(pubmedResults)) =>
          IF Get(pubmedResults).count = 0
          THEN resultsView = "noResearch" /\ truthScore = None
          ELSE /\ truthScore # None
               /\ Get(truthScore).paperCount = Get(pubmedResults).count
               /\ resultsView \in {"result", "error"}

\* C16 witness: PubMed returned papers, none obtained an abstract, and the
\* check ended with "No Research Found" and no score
C16_Witness ==
    /\ pc = "idle"
    /\ resultsView = "noResearch"
    /\ Len(Get(pubmedPapers)) = 2
    /\ failedSources = {}
    /\ truthScore = None

\* searchHybrid has returned no paper to the current check
NoPaperReturned == Has(pubmedResults) /\ Get(pubmedResults).count = 0

\* The default each stage leaves behind on a paper when it fails, or what it
\* produced when it did not
StageValuesInPlace(paper) ==
    /\ paper.abstract
    /\ Has(paper.influentialCitations)
    /\ Has(paper.qualityScore)
    /\ paper.studyMetadata \in {None, Some("null"), Some("RCT")}
    /\ paper.summary \in {Some("summary"), Some("truncated")}
    /\ paper.paperSentiment \in
          {None, Some(FallbackSentiment), Some(Sentiment("POSITIVE", 8)),
           Some(Sentiment("NEGATIVE", 6))}

\* C17 as stated: a user-visible failure (error or no-evidence message) is
\* shown only when both searches found nothing or the narrative call failed;
\* a failure confined to rephrasing, one source, enrichment, backfill,
\* metadata, summarisation, sentiment or translation still ends with a
\* displayed result.
C17_FailureOnlyWhenBothEmptyOrNarrative ==
    /\ resultsView \in {"error", "noResearch"} => BothSearchesEmpty \/ NarrativeFailed
    /\ (pc = "idle" /\ SearchesSettled /\ ~ BothSearchesEmpty /\ ~ NarrativeFailed) =>
          resultsView = "result"

\* C17 as the code has it: a user-visible failure is shown only when
\* searchHybrid returned no paper (both searches empty, or no retrieved paper
\* with an abstract after enrichment and backfill) or the narrative call
\* failed; with a paper returned, a failure confined to any other stage is
\* replaced by that stage's default and the check ends with a displayed
\* result.
C17_FailureOnlyWhenNoPaperOrNarrative ==
    /\ resultsView = "noResearch" => pc = "idle" /\ NoPaperReturned
    /\ resultsView = "error" => NarrativeFailed /\ ~ NoPaperReturned
    /\ (pc = "idle" /\ Has(pubmedResults) /\ ~ NoPaperReturned /\ ~ NarrativeFailed) =>
          /\ resultsView = "result"
          /\ analysis \in {Some("narrative"), Some("translated")}
    /\ resultsView = "result" =>
          /\ ~ NoPaperReturned
          /\ medicalQuery \in {"rephrased", "fallback"}
          /\ \A i \in 1..Len(work) : StageValuesInPlace(work[i])
          /\ Get(pubmedResults).papers = work

\* C17 witness: rephrasing, one source, the enrichment, a backfill fetch,
\* metadata extraction, summarisation, sentiment extraction and translation
\* all failed in one check, and its result is on show
C17_Witness ==
    /\ pc = "idle"
    /\ resultsView = "result"
    /\ medicalQuery = "fallback"
    /\ failedSources = {"semantic_scholar"}
    /\ Len(Get(pubmedPapers)) = 2
    /\ Len(work) = 1
    /\ work[1].influentialCitations = Some(0)
    /\ work[1].studyMetadata = Some("null")
    /\ work[1].summary = Some("truncated")
    /\ work[1].paperSentiment = Some(FallbackSentiment)
    /\ language = "es"
    /\ analysis = Some("narrative")

\* The current check got as far as step 6 and ended without a narrative
EndedWithoutNarrative == pc = "idle" /\ truthScore # None /\ analysis = None

\* C18: when getting the language-model session or prompting it fails at the
\* narrative step, the check ends in the error state, no result is displayed,
\* translateText is not invoked, and the narrative prompt was attempted once
\* at most: it is never retried.
C18_NarrativeFailureIsTerminal ==
    /\ narrativeCalls <= 1
    /\ pc = "narrative" => narrativeCalls = 1 /\ analysis = None /\ translateCalls = 0
    /\ EndedWithoutNarrative =>
          /\ resultsView = "error"
          /\ button = ButtonReady
          /\ translateCalls = 0
          /\ narrativeCalls = 0 => ~ cachedSessions.languageModel
    /\ resultsView = "error" => EndedWithoutNarrative
    /\ (pc = "idle" /\ truthScore # None /\ narrativeCalls = 0) => resultsView = "error"

\* C18 witness: the narrative prompt was issued once, rejected, and the check
\* ended in the error state although the selected language asks for a
\* translation
C18_Witness ==
    /\ pc = "idle"
    /\ resultsView = "error"
    /\ narrativeCalls = 1
    /\ language = "es"
    /\ translateCalls = 0
    /\ truthScore # None
    /\ analysis = None

\* C19: translateText is invoked exactly when the selected language is not
\* 'en', once per check and only after the narrative was generated; when the
\* translator session or the translation fails it returns its input unchanged
\* and the result is displayed with the untranslated narrative.
C19_TranslationOnlyForOtherLanguages ==
    /\ translateCalls <= 1
    /\ translateCalls = 1 =>
          /\ language # "en"
          /\ narrativeCalls = 1
          /\ analysis # None
          /\ pc \in {"translate", "idle"}
    /\ pc = "translate" => translateCalls = 1 /\ analysis = Some("narrative")
    /\ resultsView = "result" =>
          /\ translateCalls = (IF language = "en" THEN 0 ELSE 1)
          /\ analysis \in {Some("narrative"), Some("translated")}
          /\ language = "en" => analysis = Some("narrative")
          /\ button = ButtonReady

\* C19 witness: Spanish was selected, the translation failed, and the result
\* is on show with the narrative as the model wrote it
C19_Witness ==
    /\ pc = "idle"
    /\ resultsView = "result"
    /\ language = "es"
    /\ translateCalls = 1
    /\ analysis = Some("narrative")

\* The button while a check is in flight
ButtonBusy == [disabled |-> TRUE, text |-> "Researching..."]

SessionKinds == {"languageModel", "summarizer"}

\* The cache entry of a kind is non-null exactly when one create() resolved
SessionCacheConsistent ==
    \A kind \in SessionKinds :
        /\ sessionsCreated[kind] <= 1
        /\ cachedSessions[kind] <=> sessionsCreated[kind] = 1

\* A step never clears or replaces a cached handle, and creates one only
\* into a null entry
SessionCacheStep ==
    \A kind \in SessionKinds :
        /\ cachedSessions[kind] =>
              cachedSessions'[kind] /\ sessionsCreated'[kind] = sessionsCreated[kind]
        /\ sessionsCreated'[kind] # sessionsCreated[kind] =>
              /\ ~ cachedSessions[kind]
              /\ cachedSessions'[kind]
              /\ sessionsCreated'[kind] = sessionsCreated[kind] + 1

StageOrder ==
    << "rephraseSession", "rephrasePrompt", "search", "enrich", "backfill",
       "metadataSession", "metadata", "hybridReturned", "summarizerSession",
       "summarize", "summarized", "analysisSession", "analysis", "analyzed",
       "narrativeSession", "narrative", "translate" >>

StageRank(stage) == CHOOSE i \in 1..Len(StageOrder) : StageOrder[i] = stage

\* The positions in which the branches of a Promise.all or the turns of a
\* for-of loop are awaited
FanOutStages == {"enrich", "backfill", "metadata", "summarize", "analysis"}

\* Every branch of the stage the check is in has settled
StageSettled ==
    /\ pc = "search" => Has(pubmedPapers) /\ Has(semanticPapers)
    /\ pc \in FanOutStages => Pending = {}

\* The values of the stages behind the check's position are there, those of
\* the stages ahead of it are not
StageOutputsInOrder ==
    /\ pc # "idle" =>
          /\ (StageRank(pc) > StageRank("rephrasePrompt")) = (medicalQuery # "")
          /\ (StageRank(pc) > StageRank("search")) => SearchesSettled
          /\ (StageRank(pc) < StageRank("search")) =>
                pubmedPapers = None /\ semanticPapers = None
          /\ (StageRank(pc) >= StageRank("hybridReturned")) = Has(pubmedResults)
          /\ (StageRank(pc) >= StageRank("narrativeSession")) = (truthScore # None)
          /\ (StageRank(pc) <= StageRank("narrative")) => analysis = None
          /\ (StageRank(pc) < StageRank("narrative")) => narrativeCalls = 0
          /\ (StageRank(pc) < StageRank("translate")) => translateCalls = 0
    /\ narrativeCalls <= 1
    /\ translateCalls <= 1

\* One step of a check: forward in the order, never back and never to the
\* same position again, out of a stage only when its branches have settled
StageStep ==
    /\ pc' # pc =>
          /\ pc = "idle" => pc' = "rephraseSession"
          /\ pc # "idle" =>
                /\ pc' = "idle" \/ StageRank(pc') > StageRank(pc)
                /\ StageSettled
    /\ (pc' = pc /\ pc # "idle") =>
          /\ pc \in FanOutStages \cup {"search"}
          /\ ~ StageSettled

\* C27: within one claim check the stages run in the fixed order rephrase, the
\* two searches, citation enrichment, merge and deduplication, abstract
\* backfill, ranking, metadata extraction, summarisation, sentiment
\* extraction, truth-score calculation, narrative generation, optional
\* translation, display; no stage begins before every branch of the previous
\* stage has settled, and no stage runs more than once.
C27_StagesInFixedOrder == [] StageOutputsInOrder /\ [][StageStep]_vars

\* C27 witness: a check of a Spanish claim went through every stage and its
\* translated result is displayed
C27_Witness ==
    /\ pc = "idle"
    /\ resultsView = "result"
    /\ language = "es"
    /\ translateCalls = 1
    /\ narrativeCalls = 1
    /\ medicalQuery = "rephrased"
    /\ failedSources = {}
    /\ Len(work) = 2
    /\ \A i \in 1..2 : work[i].studyMetadata = Some("RCT")
                          /\ work[i].summary = Some("summary")
                          /\ Has(work[i].paperSentiment)

---------------------------------------------------------------------------
(* SpecLive: the popup of Spec in which one external call of a check may     *)
(* never settle, and in which a call that does settle has its continuation *)
(* run (the event loop runs the reaction of every settled promise).        *)

\* The positions in which the check awaits a single external call
SingleCallStages ==
    {"rephraseSession", "rephrasePrompt", "metadataSession", "summarizerSession",
     "analysisSession", "narrativeSession", "narrative", "translate"}

\* An external call: the position that awaits it and its place there
Call(stage, slot) == [stage |-> stage, slot |-> slot]

\* The calls the check is waiting for
CallsInFlight ==
    CASE pc \in SingleCallStages -> {Call(pc, 0)}
      [] pc = "search" ->
            (IF pubmedPapers = None THEN {Call(pc, 1)} ELSE {})
               \cup (IF semanticPapers = None THEN {Call(pc, 2)} ELSE {})
      [] pc = "backfill" ->
            {Call(pc, i) : i \in {k \in Pending : \A j \in Pending : k <= j}}
      [] pc \in FanOutStages \ {"backfill"} -> {Call(pc, i) : i \in Pending}
      [] OTHER -> {}

\* One of the calls in flight will never settle
CallHangs ==
    /\ hungCall = None
    /\ \E call \in CallsInFlight : hungCall' = Some(call)
    /\ UNCHANGED << baseVars, enrichVars, mdVars, rqVars, parseVars, popupVars >>

\* The step settles the call that never settles
HungCallSettles ==
    /\ Has(hungCall)
    /\ Get(hungCall).stage = pc
    /\ CASE pc \in SingleCallStages -> TRUE
         [] pc = "search" ->
               \/ Get(hungCall).slot = 1 /\ pubmedPapers' # None
               \/ Get(hungCall).slot = 2 /\ semanticPapers' # None
         [] OTHER -> /\ pc' = pc
                     /\ Get(hungCall).slot \in Pending
                     /\ Has(branches'[Get(hungCall).slot])

\* A step of the popup that the call that never settles does not take part in
CheckStep == Next /\ ~ HungCallSettles

LiveNext ==
    \/ CheckStep
    \/ CallHangs

\* The steps of a running check
RunningCheckStep == CheckStep /\ pc # "idle"

SpecLive == Init /\ [][LiveNext]_vars /\ WF_vars(RunningCheckStep)

\* The three ways a check ends
TerminalOutcomes == {"result", "noResearch", "error"}

\* The results area changes when a check starts and when it ends, and ends
\* with one of the three outcomes
OutcomeStep ==
    resultsView' # resultsView =>
        \/ pc = "idle" /\ pc' # "idle" /\ resultsView' = "progress"
        \/ /\ pc # "idle" /\ pc' = "idle"
           /\ resultsView = "progress" /\ resultsView' \in TerminalOutcomes

\* C28: if every external call eventually settles, with success or failure,
\* every started claim check eventually reaches exactly one terminal outcome
\* (result displayed, no research found, or error); a single call that never
\* settles leaves the check in flight forever, because no timeout or
\* cancellation exists.
C28_SettlingCallsEndEveryCheck ==
    /\ (pc # "idle") ~> ((pc = "idle" /\ resultsView \in TerminalOutcomes) \/ Has(hungCall))
    /\ [] (pc # "idle" => resultsView = "progress")
    /\ [][OutcomeStep]_vars
    /\ [] (Has(hungCall) => pc # "idle" /\ pc = Get(hungCall).stage)

\* C28 witness: of two enrichment lookups the second never settles; the first
\* has settled and the check waits in the enrichment
C28_Witness ==
    /\ hungCall = Some(Call("enrich", 2))
    /\ pc = "enrich"
    /\ Pending = {2}
    /\ resultsView = "progress"
    /\ button.disabled

---------------------------------------------------------------------------
(* SpecRank: lines 376-392 of searchHybrid on bounded lists, and the       *)
(* prompts extractStudyMetadata and analyzePapers issue for what it returns *)

MaxRankPapers == 6

\* [influentialCitations, age in years, abstract present]
RankKinds ==
    { << 1000, 0, TRUE >>, << 0, 25, TRUE >>, << 9, 10, TRUE >>,
      << 0, 10, TRUE >>, << 9, 10, FALSE >> }

\* The i-th paper of allPapers, titled by its position
RankPaper(i, kind) ==
    PipelinePaper(AnalyzeTitles[i], None, None, kind[3], "semantic_scholar",
                  Some(kind[1]), kind[2])

RankInit ==
    /\ rankInput = << >>
    /\ rankPc = "collect"
    /\ rankRanked = << >>
    /\ rankReturned = None
    /\ metadataPrompts = 0
    /\ sentimentPrompts = 0
    /\ researchSummary = << >>
    /\ scorePapers = << >>
    /\ scoreResult = None
    /\ AnalyzeIdle
    /\ MergeIdle
    /\ PopupLoaded
    /\ ExtraIdle

\* allPapers holds one paper more
RankAddPaper ==
    /\ rankPc = "collect"
    /\ Len(rankInput) < MaxRankPapers
    /\ \E kind \in RankKinds :
         rankInput' = Append(rankInput, RankPaper(Len(rankInput) + 1, kind))
    /\ UNCHANGED << rankPc, rankRanked, rankReturned, metadataPrompts,
                    sentimentPrompts, researchSummary, rankOthers >>

\* Lines 376-381: the filter and rankPapersByQualityScore
RankRun ==
    /\ rankPc = "collect"
    /\ rankRanked' = rankPapersByQualityScore(PapersWithAbstracts(rankInput))
    /\ rankPc' = "ranked"
    /\ UNCHANGED << rankInput, rankReturned, metadataPrompts, sentimentPrompts,
                    researchSummary, rankOthers >>

\* papers.map(async (paper) => ... session.prompt(prompt) ...): one prompt per
\* paper when the session is there, none when getLanguageModelSession throws
PromptsIssued(papers, session) == IF session THEN Len(papers) ELSE 0

\* Lines 384-392: the slice, extractStudyMetadata, the return
RankReturn ==
    /\ rankPc = "ranked"
    /\ \E session \in BOOLEAN :
         LET top5Papers == Top5(rankRanked)
         IN  /\ metadataPrompts' = PromptsIssued(top5Papers, session)
             /\ rankReturned' = Some(HybridResult(top5Papers, "rephrased"))
    /\ rankPc' = "returned"
    /\ UNCHANGED << rankInput, rankRanked, sentimentPrompts, researchSummary,
                    rankOthers >>

\* summarizeAbstracts(fetchAbstracts(papers)): one summary per paper, the
\* Summarizer's text, or the truncated abstract where summarize() rejected or
\* (for all of them) the Summarizer was not there
SummariesOf(papers, summarised) ==
    [i \in 1..Len(papers) |->
        Summary(papers[i], IF i \in summarised THEN "summary" ELSE "truncated")]

\* Line 1029: summaries.map(s => ({ ...s, simplified: s.summary }))
Simplified(found) ==
    [i \in 1..Len(found) |->
        [title |-> found[i].title, summary |-> found[i].summary,
         simplified |-> found[i].summary]]

\* buildFactCheckPrompt, lines 740-742: `${idx + 1}. ${item.title}\n Key
\* findings: ${item.simplified}` for each item, in order
ResearchSummary(simplified) ==
    [idx \in 1..Len(simplified) |->
        [number |-> idx, title |-> simplified[idx].title,
         findings |-> simplified[idx].simplified]]

\* onCheckClick, lines 998-1041, unless count === 0: the summaries, the
\* sentiment prompts of analyzePapers, the research list of the prompt
RankAnalyze ==
    /\ rankPc = "returned"
    /\ ~ NoResearch(Get(rankReturned))
    /\ \E session \in BOOLEAN :
         sentimentPrompts' = PromptsIssued(Get(rankReturned).papers, session)
    /\ \E summarised \in {{}, {1}, 1..Len(Get(rankReturned).papers)} :
         researchSummary' =
            ResearchSummary(Simplified(SummariesOf(Get(rankReturned).papers, summarised)))
    /\ rankPc' = "analysed"
    /\ UNCHANGED << rankInput, rankRanked, rankReturned, metadataPrompts, rankOthers >>

RankNext ==
    \/ RankAddPaper
    \/ RankRun
    \/ RankReturn
    \/ RankAnalyze

SpecRank == RankInit /\ [][RankNext]_vars

\* C13: whatever was retrieved, searchHybrid returns at most 5 papers, they
\* are the first 5 of the ranked order, count is the length of the returned
\* list, and a check issues at most 5 metadata prompts and at most 5
\* sentiment prompts.
C13_TopFiveCap ==
    /\ metadataPrompts <= 5
    /\ sentimentPrompts <= 5
    /\ Has(rankReturned) =>
          LET returned == Get(rankReturned)
          IN  /\ Len(returned.papers) <= 5
              /\ Len(returned.papers) <= Len(rankRanked)
              /\ \A i \in 1..Len(returned.papers) : returned.papers[i] = rankRanked[i]
              /\ Len(rankRanked) <= 5 => returned.papers = rankRanked
              /\ Len(rankRanked) > 5 => Len(returned.papers) = 5
              /\ returned.count = Len(returned.papers)
              /\ metadataPrompts \in {0, returned.count}
              /\ rankPc = "analysed" => sentimentPrompts \in {0, returned.count}

\* C13 witness: six papers with abstracts were ranked, five were returned and
\* five prompts of each kind were issued
C13_Witness ==
    /\ rankPc = "analysed"
    /\ Len(rankRanked) = 6
    /\ Get(rankReturned).count = 5
    /\ metadataPrompts = 5
    /\ sentimentPrompts = 5

RankDone == rankPc \in {"ranked", "returned", "analysed"}

\* Position of a title in the input of the ranking
InputIndex(title) == CHOOSE i \in 1..Len(rankInput) : rankInput[i].title = title

\* 0.6 x influentialScore + 0.4 x recencyScore of the papers of SpecRank, in
\* 350ths, worked out by hand: log10(citations + 1) / 3.5 and 1 - age / 20
ExpectedQuality(paper) ==
    LET c == Get(paper.influentialCitations)
        a == paper.age
    IN  CASE c = 1000 /\ a = 0 -> 180 + 140
          [] c = 0 /\ a = 25 -> 0 + 0
          [] c = 9 /\ a = 10 -> 60 + 70
          [] c = 0 /\ a = 10 -> 0 + 70

\* C14: rankPapersByQualityScore returns a permutation of its input in
\* non-increasing order of qualityScore = 0.6 x influentialScore + 0.4 x
\* recencyScore, papers of equal score in input order; ranking its output
\* again gives the same order; a paper with 1000 influential citations from
\* this year stands before one with none from 25 years ago.
C14_RankingIsStableDescending ==
    RankDone =>
        LET input == PapersWithAbstracts(rankInput)
            n == Len(rankRanked)
        IN  /\ n = Len(input)
            /\ {rankRanked[i].title : i \in 1..n} = {input[i].title : i \in 1..n}
            /\ \A i \in 1..n :
                 /\ rankRanked[i].qualityScore = Some(ExpectedQuality(rankRanked[i]))
                 /\ [rankRanked[i] EXCEPT !.qualityScore = None]
                       = rankInput[InputIndex(rankRanked[i].title)]
            /\ \A i, k \in 1..n :
                 i < k =>
                    /\ Get(rankRanked[i].qualityScore) >= Get(rankRanked[k].qualityScore)
                    /\ rankRanked[i].qualityScore = rankRanked[k].qualityScore =>
                          InputIndex(rankRanked[i].title) < InputIndex(rankRanked[k].title)
            /\ rankPapersByQualityScore(rankRanked) = rankRanked
            /\ \A i, k \in 1..n :
                 ( /\ rankRanked[i].influentialCitations = Some(1000)
                   /\ rankRanked[i].age = 0
                   /\ rankRanked[k].influentialCitations = Some(0)
                   /\ rankRanked[k].age = 25 ) => i < k

\* C14 witness: the old uncited paper came first in the input and the
\* 1000-citation paper last, with two papers of equal score between them;
\* the ranking reversed the ends and kept the two in their order
C14_Witness ==
    /\ RankDone
    /\ Len(rankInput) = 4
    /\ rankInput[1] = RankPaper(1, << 0, 25, TRUE >>)
    /\ rankInput[2] = RankPaper(2, << 9, 10, TRUE >>)
    /\ rankInput[3] = RankPaper(3, << 9, 10, TRUE >>)
    /\ rankInput[4] = RankPaper(4, << 1000, 0, TRUE >>)
    /\ [i \in 1..4 |-> rankRanked[i].title] = << "T4", "T2", "T3", "T1" >>

\* The titles of the numbered research list, in order
ListedTitles == [idx \in 1..Len(researchSummary) |-> researchSummary[idx].title]

\* C24: the numbered research list of the narrative prompt holds one entry
\* (title and best-available summary) for every paper that survived
\* deduplication and abstract filtering, not only for the five highest-ranked.
C24_ResearchListCoversSurvivors ==
    rankPc = "analysed" =>
        /\ Len(researchSummary) = Len(PapersWithAbstracts(rankInput))
        /\ \A paper \in {rankInput[i] : i \in 1..Len(rankInput)} :
              paper.abstract =>
                 \E idx \in 1..Len(researchSummary) :
                    /\ researchSummary[idx].title = paper.title
                    /\ researchSummary[idx].findings \in {"summary", "truncated"}

\* What the list does hold: the papers searchHybrid returned, in ranked order
C24_ResearchListCoversReturned ==
    rankPc = "analysed" =>
        /\ ListedTitles = [i \in 1..Len(Get(rankReturned).papers) |->
                              Get(rankReturned).papers[i].title]
        /\ \A idx \in 1..Len(researchSummary) :
              /\ researchSummary[idx].number = idx
              /\ researchSummary[idx].findings \in {"summary", "truncated"}

---------------------------------------------------------------------------
(* SpecEnrich: enrichPubMedWithCitations (popup.js 243-300) on bounded     *)
(* lists, each paper's DOI and PMID lookups settling on their own          *)

\* The popup is loaded and no other function is under way
BaseIdle ==
    /\ scorePapers = << >>
    /\ scoreResult = None
    /\ AnalyzeIdle
    /\ MergeIdle
    /\ PopupLoaded
    /\ RankIdle

MaxEnrichPapers == 2

\* Whether the paper carries a DOI and a PMID
EnrichKinds == BOOLEAN \X BOOLEAN

\* The i-th PubMed paper, titled by its position
EnrichPaper(i, kind) ==
    PipelinePaper(AnalyzeTitles[i],
                  IF kind[1] THEN Some(AnalyzeTitles[i]) ELSE None,
                  IF kind[2] THEN Some(AnalyzeTitles[i]) ELSE None,
                  FALSE, "pubmed", None, 0)

\* How one lookup ends: response.ok with the record, another status, a 429,
\* a rejected fetch
LookupOutcomes ==
    { SearchOutcome("ok", S2Data(7, TRUE)), SearchOutcome("ok", S2Data(0, FALSE)),
      SearchOutcome("404", None), SearchOutcome("429", None),
      SearchOutcome("network", None) }

Lookup(by, outcome) == [by |-> by, outcome |-> outcome]

\* s2Data after the lookups issued so far: assigned only under response.ok
S2DataAfter(lookups) ==
    IF lookups = << >> THEN NoS2Data
    ELSE LET last == lookups[Len(lookups)].outcome
         IN  IF last.status = "ok" THEN last.data ELSE NoS2Data

\* if (paper.doi): the DOI lookup is the callback's next await
DoiDue(i) == Has(enrichInput[i].doi) /\ enrichLookups[i] = << >>

\* Mutant: the PMID lookup does not look at s2Data
PmidDueWhateverDoiGave(i) ==
    /\ ~ DoiDue(i)
    /\ Has(enrichInput[i].pmid)
    /\ \A k \in 1..Len(enrichLookups[i]) : enrichLookups[i][k].by # "PMID"

\* if (!s2Data && paper.pmid): the PMID lookup is the callback's next await
PmidDue(i) ==
    /\ ~ DoiDue(i)
    /\ ~ Has(S2DataAfter(enrichLookups[i]))
    /\ Has(enrichInput[i].pmid)
    /\ \A k \in 1..Len(enrichLookups[i]) : enrichLookups[i][k].by # "PMID"

EnrichInit ==
    /\ enrichInput = << >>
    /\ enrichPc = "collect"
    /\ enrichLookups = << >>
    /\ enrichSettled = << >>
    /\ enrichResult = None
    /\ BaseIdle
    /\ LiveIdle
    /\ HandoffIdle
    /\ MetadataIdle
    /\ RephraseIdle
    /\ ParseIdle

\* pubmedPapers holds one paper more
EnrichAddPaper ==
    /\ enrichPc = "collect"
    /\ Len(enrichInput) < MaxEnrichPapers
    /\ \E kind \in EnrichKinds :
         enrichInput' = Append(enrichInput, EnrichPaper(Len(enrichInput) + 1, kind))
    /\ UNCHANGED << enrichPc, enrichLookups, enrichSettled, enrichResult, enrichOthers >>

\* pubmedPapers.map(async (paper) => ...): every callback starts
EnrichStart ==
    /\ enrichPc = "collect"
    /\ enrichLookups' = [i \in 1..Len(enrichInput) |-> << >>]
    /\ enrichSettled' = [i \in 1..Len(enrichInput) |-> None]
    /\ enrichPc' = "lookups"
    /\ UNCHANGED << enrichInput, enrichResult, enrichOthers >>

\* The lookup by DOI of one paper ends
EnrichDoiLookup ==
    /\ enrichPc = "lookups"
    /\ \E i \in 1..Len(enrichInput), outcome \in LookupOutcomes :
         /\ ~ Has(enrichSettled[i])
         /\ DoiDue(i)
         /\ enrichLookups' = [enrichLookups EXCEPT ![i] = Append(@, Lookup("DOI", outcome))]
    /\ UNCHANGED << enrichInput, enrichPc, enrichSettled, enrichResult, enrichOthers >>

\* The lookup by PMID of one paper ends
EnrichPmidLookup ==
    /\ enrichPc = "lookups"
    /\ \E i \in 1..Len(enrichInput), outcome \in LookupOutcomes :
         /\ ~ Has(enrichSettled[i])
         /\ PmidDue(i)
         /\ enrichLookups' = [enrichLookups EXCEPT ![i] = Append(@, Lookup("PMID", outcome))]
    /\ UNCHANGED << enrichInput, enrichPc, enrichSettled, enrichResult, enrichOthers >>

\* One callback returns
EnrichPaperSettles ==
    /\ enrichPc = "lookups"
    /\ \E i \in 1..Len(enrichInput) :
         /\ ~ Has(enrichSettled[i])
         /\ ~ DoiDue(i) /\ ~ PmidDue(i)
         /\ enrichSettled' = [enrichSettled EXCEPT
                                 ![i] = Some(Enriched(enrichInput[i],
                                                      S2DataAfter(enrichLookups[i])))]
    /\ UNCHANGED << enrichInput, enrichPc, enrichLookups, enrichResult, enrichOthers >>

\* Promise.all resolves and enrichPubMedWithCitations returns
EnrichReturn ==
    /\ enrichPc = "lookups"
    /\ \A i \in 1..Len(enrichInput) : Has(enrichSettled[i])
    /\ enrichResult' = Some([i \in 1..Len(enrichInput) |-> Get(enrichSettled[i])])
    /\ enrichPc' = "returned"
    /\ UNCHANGED << enrichInput, enrichLookups, enrichSettled, enrichOthers >>

EnrichNext ==
    \/ EnrichAddPaper
    \/ EnrichStart
    \/ EnrichDoiLookup
    \/ EnrichPmidLookup
    \/ EnrichPaperSettles
    \/ EnrichReturn

SpecEnrich == EnrichInit /\ [][EnrichNext]_vars

\* The lookups of one paper that ended with response.ok
OkLookups(i) ==
    {k \in 1..Len(enrichLookups[i]) : enrichLookups[i][k].outcome.status = "ok"}

\* The lookups a paper may have behind it: by DOI first when it has one, by
\* PMID only when it has one and the DOI lookup gave no data
LookupOrderRespected(i) ==
    LET paper == enrichInput[i]
        done == enrichLookups[i]
    IN  \/ done = << >>
        \/ /\ Len(done) = 1 /\ done[1].by = "DOI" /\ Has(paper.doi)
        \/ /\ Len(done) = 1 /\ done[1].by = "PMID"
           /\ ~ Has(paper.doi) /\ Has(paper.pmid)
        \/ /\ Len(done) = 2 /\ done[1].by = "DOI" /\ done[2].by = "PMID"
           /\ Has(paper.doi) /\ Has(paper.pmid)
           /\ done[1].outcome.status # "ok"

\* C22: for every combination of per-paper lookup outcomes
\* enrichPubMedWithCitations returns the same papers in the same order; a
\* paper whose lookups all failed has citations = 0 and influentialCitations
\* = 0; every other paper's fields come from its own lookup alone; the DOI
\* lookup is tried first and the PMID lookup is issued only if the DOI lookup
\* produced no data.
C22_EnrichmentIsolatesPapers ==
    /\ \A i \in 1..Len(enrichLookups) : LookupOrderRespected(i)
    /\ enrichPc = "returned" =>
          LET enriched == Get(enrichResult)
          IN  /\ Len(enriched) = Len(enrichInput)
              /\ \A i \in 1..Len(enriched) :
                   /\ [enriched[i] EXCEPT !.citations = None,
                                          !.influentialCitations = None,
                                          !.abstract = FALSE] = enrichInput[i]
                   /\ IF OkLookups(i) = {}
                      THEN /\ enriched[i].citations = Some(0)
                           /\ enriched[i].influentialCitations = Some(0)
                           /\ enriched[i].abstract = enrichInput[i].abstract
                      ELSE LET k == CHOOSE k \in OkLookups(i) : TRUE
                               data == Get(enrichLookups[i][k].outcome.data)
                           IN  /\ OkLookups(i) = {Len(enrichLookups[i])}
                               /\ enriched[i].citations = Some(data.citationCount)
                               /\ enriched[i].influentialCitations
                                     = Some(data.influentialCitationCount)
                               /\ enriched[i].abstract = data.abstract

\* C22 witness: of two papers with both identifiers, the first was rate
\* limited by DOI and lost the connection by PMID and has zero counts; the
\* second was answered by DOI, was not looked up by PMID, and has its counts
C22_Witness ==
    /\ enrichPc = "returned"
    /\ Len(enrichInput) = 2
    /\ enrichLookups[1] = << Lookup("DOI", SearchOutcome("429", None)),
                             Lookup("PMID", SearchOutcome("network", None)) >>
    /\ enrichLookups[2] = << Lookup("DOI", SearchOutcome("ok", S2Data(7, TRUE))) >>
    /\ Has(enrichInput[2].pmid)
    /\ Get(enrichResult)[1].influentialCitations = Some(0)
    /\ Get(enrichResult)[2].influentialCitations = Some(7)
    /\ Get(enrichResult)[2].abstract

---------------------------------------------------------------------------
(* SpecMetadata: extractStudyMetadata (popup.js 456-519) on bounded lists,  *)
(* each paper's prompt settling on its own                                 *)

MaxMetadataPapers == 3

\* The i-th paper handed over by searchHybrid: from either source
MetadataPaper(i, source) ==
    [title         |-> AnalyzeTitles[i],
     abstract      |-> TRUE,
     source        |-> source,
     qualityScore  |-> Some(35 * (6 - i)),
     studyMetadata |-> None]

\* The objects JSON.parse yields for the bodies a metadata response may hold
MetadataBodies == {"M_RCT", "M_COHORT"}

MetadataObject(b) ==
    CASE b = "M_RCT"    -> [studyType |-> "RCT", sampleSize |-> "120"]
      [] b = "M_COHORT" -> [studyType |-> "cohort", sampleSize |-> "not reported"]

\* JSON.parse(jsonMatch[0]) over the bodies of both kinds of response
JsonParseAny(text) ==
    IF Len(text) = 3 /\ text[1] = "{" /\ text[3] = "}" /\ text[2] \in MetadataBodies
    THEN Some(MetadataObject(text[2]))
    ELSE JsonParse(text)

\* The responses a metadata prompt may resolve with
MetadataResponses ==
    { << "{", "M_RCT", "}" >>,
      << "FENCE", "{", "M_COHORT", "}", "FENCE" >>,
      << "TXT" >>,
      << "TXT", "{", "TXT", "}" >>,
      << "{", "M_RCT", "}", "TXT", "{", "M_COHORT", "}" >> }

MetadataOutcomes == {Threw} \cup {Responded(r) : r \in MetadataResponses}

\* The body of the try / catch of one paper's async callback: the value of
\* studyMetadata, << >> for null and << metadata >> for a parsed object
StudyMetadataFor(outcome) ==
    IF outcome.threw THEN None
    ELSE LET jsonMatch == JsonMatch(outcome.response)
         IN  IF ~ Has(jsonMatch) THEN None
             ELSE JsonParseAny(Get(jsonMatch))

\* { ...paper, studyMetadata: ... }
WithStudyMetadata(paper, metadata) == [paper EXCEPT !.studyMetadata = Some(metadata)]

\* Mutant: one failed paper leaves every paper with studyMetadata = null
PapersWithMetadataAllOrNothing(papers, outcomes) ==
    [i \in 1..Len(papers) |->
        WithStudyMetadata(papers[i],
            IF \E k \in 1..Len(papers) : ~ Has(StudyMetadataFor(Get(outcomes[k])))
            THEN None
            ELSE StudyMetadataFor(Get(outcomes[i])))]

\* await Promise.all(metadataPromises): results in the order of the input
PapersWithMetadata(papers, outcomes) ==
    [i \in 1..Len(papers) |->
        WithStudyMetadata(papers[i], StudyMetadataFor(Get(outcomes[i])))]

MetadataInit ==
    /\ mdPapers = << >>
    /\ mdPc = "collect"
    /\ mdOutcome = << >>
    /\ mdResult = None
    /\ BaseIdle
    /\ LiveIdle
    /\ HandoffIdle
    /\ EnrichIdle
    /\ RephraseIdle
    /\ ParseIdle

\* The list handed to extractStudyMetadata holds one paper more
MetadataAddPaper ==
    /\ mdPc = "collect"
    /\ Len(mdPapers) < MaxMetadataPapers
    /\ \E source \in {"pubmed", "semantic"} :
         mdPapers' = Append(mdPapers, MetadataPaper(Len(mdPapers) + 1, source))
    /\ UNCHANGED << mdPc, mdOutcome, mdResult, mdOthers >>

\* extractStudyMetadata(papers) is called
MetadataCall ==
    /\ mdPc = "collect"
    /\ mdPc' = "start"
    /\ mdOutcome' = [i \in 1..Len(mdPapers) |-> None]
    /\ UNCHANGED << mdPapers, mdResult, mdOthers >>

\* getLanguageModelSession() throws: the outer catch returns the papers as given
MetadataNoSession ==
    /\ mdPc = "start"
    /\ mdResult' = Some(mdPapers)
    /\ mdPc' = "returned"
    /\ UNCHANGED << mdPapers, mdOutcome, mdOthers >>

\* The session is obtained and papers.map issues one prompt per paper
MetadataSessionOk ==
    /\ mdPc = "start"
    /\ mdPc' = "prompting"
    /\ UNCHANGED << mdPapers, mdOutcome, mdResult, mdOthers >>

\* One pending prompt settles, in any order
MetadataPromptSettles ==
    /\ mdPc = "prompting"
    /\ \E i \in 1..Len(mdPapers) :
         /\ mdOutcome[i] = None
         /\ \E o \in MetadataOutcomes :
              mdOutcome' = [mdOutcome EXCEPT ![i] = Some(o)]
    /\ UNCHANGED << mdPapers, mdPc, mdResult, mdOthers >>

\* Promise.all resolves once every callback has returned
MetadataReturn ==
    /\ mdPc = "prompting"
    /\ \A i \in 1..Len(mdPapers) : Has(mdOutcome[i])
    /\ mdResult' = Some(PapersWithMetadata(mdPapers, mdOutcome))
    /\ mdPc' = "returned"
    /\ UNCHANGED << mdPapers, mdOutcome, mdOthers >>

MetadataNext ==
    \/ MetadataAddPaper
    \/ MetadataCall
    \/ MetadataNoSession
    \/ MetadataSessionOk
    \/ MetadataPromptSettles
    \/ MetadataReturn

SpecMetadata == MetadataInit /\ [][MetadataNext]_vars

\* extractStudyMetadata returned after prompting every paper
MetadataPrompted ==
    /\ mdPc = "returned"
    /\ \A i \in 1..Len(mdPapers) : Has(mdOutcome[i])

\* The paper's prompt failed, or its response held no JSON, or JSON that
\* does not parse
MetadataFailed(outcome) ==
    \/ outcome.threw
    \/ ~ \E k \in 1..Len(outcome.response) : outcome.response[k] = "{"
    \/ Cardinality({k \in 1..Len(outcome.response) : outcome.response[k] = "{"}) > 1
    \/ ~ \E k \in 1..Len(outcome.response) : outcome.response[k] \in MetadataBodies

\* The metadata written in a response that holds one object
WrittenMetadata(response) ==
    MetadataObject(CHOOSE b \in MetadataBodies :
                      \E k \in 1..Len(response) : response[k] = b)

\* C23: for every combination of per-paper outcomes (prompt failure, no JSON
\* in the response, JSON parse failure, success) extractStudyMetadata returns
\* the same papers in the same order; each failed paper has studyMetadata =
\* null, every other paper has the metadata parsed from its own response, and
\* no other field of a paper is changed.
C23_MetadataIsolatesPapers ==
    MetadataPrompted =>
        LET returned == Get(mdResult)
        IN  /\ Len(returned) = Len(mdPapers)
            /\ \A i \in 1..Len(returned) :
                 /\ [returned[i] EXCEPT !.studyMetadata = None] = mdPapers[i]
                 /\ returned[i].studyMetadata =
                       IF MetadataFailed(Get(mdOutcome[i]))
                       THEN Some(None)
                       ELSE Some(Some(WrittenMetadata(Get(mdOutcome[i]).response)))

\* C23 witness: three papers, the first's prompt rejected, the second's
\* response without JSON, the third's a fenced object that was parsed
C23_Witness ==
    /\ MetadataPrompted
    /\ Len(mdPapers) = 3
    /\ Get(mdOutcome[1]) = Threw
    /\ Get(mdOutcome[2]) = Responded(<< "TXT" >>)
    /\ Get(mdOutcome[3]) = Responded(<< "FENCE", "{", "M_COHORT", "}", "FENCE" >>)
    /\ Get(mdResult)[1].studyMetadata = Some(None)
    /\ Get(mdResult)[2].studyMetadata = Some(None)
    /\ Get(mdResult)[3].studyMetadata = Some(Some(MetadataObject("M_COHORT")))

---------------------------------------------------------------------------
(* SpecRephrase: rephraseToMedicalQuery (popup.js 95-144) on bounded        *)
(* claims.  A claim is a sequence of items: words, and between two words   *)
(* the character that separates them, a space or a tab.                    *)

MaxClaimWords == 6

ClaimWords == {"aspirin", "People", "soy"}

Separators == {" ", "\t"}

\* String.prototype.length of an item
ItemLength(item) ==
    CASE item = "aspirin" -> 7
      [] item = "People"  -> 6
      [] item = "soy"     -> 3
      [] OTHER            -> 1

\* String.prototype.toLowerCase of an item
LowerItem(item) == IF item = "People" THEN "people" ELSE item

\* The literal array of the filter
StopWords ==
    {"should", "people", "avoid", "have", "with", "that", "this", "could",
     "would", "every", "always", "never"}

RECURSIVE SplitOnSpace(_)
\* claim.split(' '): the pieces between the space characters, in order
SplitOnSpace(text) ==
    LET spaces == {i \in 1..Len(text) : text[i] = " "}
    IN  IF spaces = {} THEN << text >>
        ELSE LET first == CHOOSE i \in spaces : \A k \in spaces : i <= k
             IN  << SubSeq(text, 1, first - 1) >>
                     \o SplitOnSpace(SubSeq(text, first + 1, Len(text)))

RECURSIVE WordLength(_)
\* word.length of a piece
WordLength(word) ==
    IF word = << >> THEN 0 ELSE ItemLength(Head(word)) + WordLength(Tail(word))

\* [...].includes(word.toLowerCase()): the piece is one of the listed words
IsStopWord(word) == Len(word) = 1 /\ LowerItem(word[1]) \in StopWords

\* The filter's callback
KeptWord(word) == WordLength(word) > 3 /\ ~ IsStopWord(word)

\* .slice(0, 5)
FirstFive(words) == SubSeq(words, 1, Min(5, Len(words)))

RECURSIVE JoinWithSpace(_)
\* .join(' ')
JoinWithSpace(words) ==
    IF words = << >> THEN << >>
    ELSE IF Len(words) = 1 THEN words[1]
    ELSE words[1] \o << " " >> \o JoinWithSpace(Tail(words))

\* The catch block's fallback
FallbackQuery(text) ==
    JoinWithSpace(FirstFive(SelectSeq(SplitOnSpace(text), KeptWord)))

RephraseInit ==
    /\ rqClaim = << >>
    /\ rqPc = "collect"
    /\ rqAttempts = 0
    /\ rqFailed = FALSE
    /\ rqResult = None
    /\ BaseIdle
    /\ LiveIdle
    /\ HandoffIdle
    /\ EnrichIdle
    /\ MetadataIdle
    /\ ParseIdle

\* The claim holds one word more
RephraseAddWord ==
    /\ rqPc = "collect"
    /\ Len(rqClaim) + 1 < 2 * MaxClaimWords
    /\ \E word \in ClaimWords, sep \in Separators :
         rqClaim' = IF rqClaim = << >> THEN << word >>
                    ELSE rqClaim \o << sep, word >>
    /\ UNCHANGED << rqPc, rqAttempts, rqFailed, rqResult, rqOthers >>

\* rephraseToMedicalQuery(claim) is called, up to await getLanguageModelSession()
RephraseCall ==
    /\ rqPc = "collect"
    /\ rqPc' = "session"
    /\ UNCHANGED << rqClaim, rqAttempts, rqFailed, rqResult, rqOthers >>

\* getLanguageModelSession() throws: the catch returns the fallback
RephraseNoSession ==
    /\ rqPc = "session"
    /\ rqFailed' = TRUE
    /\ rqResult' = Some(FallbackQuery(rqClaim))
    /\ rqPc' = "returned"
    /\ UNCHANGED << rqClaim, rqAttempts, rqOthers >>

\* The session is there and session.prompt(prompt) is issued
RephrasePrompt ==
    /\ rqPc = "session"
    /\ rqAttempts' = rqAttempts + 1
    /\ rqPc' = "prompting"
    /\ UNCHANGED << rqClaim, rqFailed, rqResult, rqOthers >>

\* The prompt resolves: query.trim() is returned
RephraseResolves ==
    /\ rqPc = "prompting"
    /\ rqResult' = Some(<< "rephrased" >>)
    /\ rqPc' = "returned"
    /\ UNCHANGED << rqClaim, rqAttempts, rqFailed, rqOthers >>

\* The prompt rejects: the catch returns the fallback
RephraseRejects ==
    /\ rqPc = "prompting"
    /\ rqFailed' = TRUE
    /\ rqResult' = Some(FallbackQuery(rqClaim))
    /\ rqPc' = "returned"
    /\ UNCHANGED << rqClaim, rqAttempts, rqOthers >>

RephraseNext ==
    \/ RephraseAddWord
    \/ RephraseCall
    \/ RephraseNoSession
    \/ RephrasePrompt
    \/ RephraseResolves
    \/ RephraseRejects

SpecRephrase == RephraseInit /\ [][RephraseNext]_vars

\* The whitespace-separated tokens of the claim
WhitespaceTokens(text) == SelectSeq(text, LAMBDA item : item \notin Separators)

\* Those longer than 3 characters and not in the stop-word list
QualifyingTokens(text) ==
    SelectSeq(WhitespaceTokens(text),
              LAMBDA item : ItemLength(item) > 3 /\ LowerItem(item) \notin StopWords)

\* The first count of them joined by single spaces
FirstJoined(tokens, count) ==
    [k \in 1..(2 * count - 1) |-> IF k % 2 = 1 THEN tokens[(k + 1) \div 2] ELSE " "]

\* The call is over and no exception left it
RephraseReturned == rqPc = "returned" /\ Has(rqResult)

\* C25: rephraseToMedicalQuery never throws and never retries: it makes at
\* most one model attempt, and if session creation or the prompt fails it
\* returns the fallback query, which consists of the first 3 to 5
\* whitespace-separated tokens of the claim, in claim order, that are longer
\* than 3 characters and not in the fixed stop-word list, joined by single
\* spaces.
C25_FallbackIsFirstThreeToFiveTokens ==
    /\ rqPc # "threw"
    /\ rqAttempts <= 1
    /\ (RephraseReturned /\ rqFailed) =>
          \E count \in 3..5 :
             /\ count <= Len(QualifyingTokens(rqClaim))
             /\ Get(rqResult) = FirstJoined(QualifyingTokens(rqClaim), count)

\* The same with "up to 5" for "3 to 5": it fails as well, on the claims in
\* which a tab separates two words
C25_FallbackIsFirstUpToFiveTokens ==
    (RephraseReturned /\ rqFailed) =>
        LET count == Min(5, Len(QualifyingTokens(rqClaim)))
        IN  Get(rqResult) = IF count = 0 THEN << >>
                            ELSE FirstJoined(QualifyingTokens(rqClaim), count)

\* What holds: no exception, at most one attempt, and with spaces alone
\* between the words the fallback is the first up to 5 qualifying tokens
C25_OneAttemptAndSpaceSeparatedFallback ==
    /\ rqPc # "threw"
    /\ rqAttempts <= 1
    /\ (RephraseReturned /\ rqFailed /\ \A k \in 1..Len(rqClaim) : rqClaim[k] # "\t") =>
          LET count == Min(5, Len(QualifyingTokens(rqClaim)))
          IN  Get(rqResult) = IF count = 0 THEN << >>
                              ELSE FirstJoined(QualifyingTokens(rqClaim), count)

---------------------------------------------------------------------------
(* SpecParse: what each model call whose output is parsed as JSON makes of  *)
(* a response.  The calls are the popup's extractStudyMetadata and         *)
(* analyzePapers and the server's paper-analysis (unnamed/part_001),       *)
(* metadata-extraction and score-features (unnamed/part_002) endpoints.    *)
(* A response is a sequence of tokens as in analyzePapers above, with      *)
(* "FENCE_JSON" for an opening fence line tagged json.                     *)

MaxResponseTokens == 5

ParsedCalls ==
    {"popupMetadata", "popupSentiment", "serverAnalysis", "serverMetadata",
     "serverScoreFeatures"}

\* The object each call asks the model for
BodyOf(call) ==
    CASE call = "popupMetadata"       -> "M_RCT"
      [] call = "popupSentiment"      -> "B_POS8"
      [] call = "serverAnalysis"      -> "R_RESULTS"
      [] call = "serverMetadata"      -> "M_RCT"
      [] call = "serverScoreFeatures" -> "F_GRADES"

ResponseTokens(call) == {"FENCE_JSON", "FENCE", "{", "}", "TXT", BodyOf(call)}

\* JSON.parse(content) on the server: the object as written, the empty
\* object for "{}", << >> when it throws
ServerJsonParse(content, body) ==
    IF content = << "{", body, "}" >> THEN Some(body)
    ELSE IF content = << "{", "}" >> THEN Some("EMPTY")
    ELSE None

\* part_001, 100-103: if (content.startsWith('```')) content =
\* content.replace(/^```json?\s*\n?/, '').replace(/\n?```\s*$/, '')
StripMarkdown(content) ==
    IF content # << >> /\ Head(content) \in {"FENCE", "FENCE_JSON"}
    THEN LET opened == IF Head(content) = "FENCE_JSON" THEN Tail(content) ELSE content
         IN  IF opened # << >> /\ opened[Len(opened)] = "FENCE"
             THEN SubSeq(opened, 1, Len(opened) - 1)
             ELSE opened
    ELSE content

\* res.status(status).json(body)
Response(status, body) == [status |-> status, body |-> body]

\* part_001, 96-133: the results of the parsed analysis, or on a parse error
\* a NEUTRAL 0.5 entry per paper, both with status 200
ServerAnalysis(content) ==
    LET paperAnalysis == ServerJsonParse(StripMarkdown(content), "R_RESULTS")
    IN  IF Has(paperAnalysis)
        THEN Response(200, IF Get(paperAnalysis) = "EMPTY" THEN "[]" ELSE "R_RESULTS")
        ELSE Response(200, "NEUTRAL for every paper")

\* part_002, 68-95: the parsed metadata, or on a parse error the metadata
\* with every field 'not reported', both with status 200
ServerMetadata(content) ==
    LET metadata == ServerJsonParse(content, "M_RCT")
    IN  IF Has(metadata) THEN Response(200, Get(metadata))
        ELSE Response(200, "not reported")

\* part_002, 233-255: JSON.parse(raw) stands in the outer try, whose catch
\* answers 500 with the error's message
ServerScoreFeatures(content) ==
    LET raw == IF content = << >> THEN << "{", "}" >> ELSE content
        parsed == ServerJsonParse(raw, "F_GRADES")
    IN  IF Has(parsed)
        THEN Response(200, IF Get(parsed) = "EMPTY" THEN "grades all 0" ELSE "F_GRADES")
        ELSE Response(500, "error")

\* What the caller of each call gets for a response
ParsedAs(call, content) ==
    CASE call = "popupMetadata"       -> Response(200, StudyMetadataFor(Responded(content)))
      [] call = "popupSentiment"      -> Response(200, SentimentFor(Responded(content)))
      [] call = "serverAnalysis"      -> ServerAnalysis(content)
      [] call = "serverMetadata"      -> ServerMetadata(content)
      [] call = "serverScoreFeatures" -> ServerScoreFeatures(content)

ParseInit ==
    /\ parseCall = ""
    /\ parsePc = "choose"
    /\ parseContent = << >>
    /\ parseResult = None
    /\ BaseIdle
    /\ LiveIdle
    /\ HandoffIdle
    /\ EnrichIdle
    /\ MetadataIdle
    /\ RephraseIdle

\* One of the calls is made
ParseCallMade ==
    /\ parsePc = "choose"
    /\ \E call \in ParsedCalls : parseCall' = call
    /\ parsePc' = "respond"
    /\ UNCHANGED << parseContent, parseResult, parseOthers >>

\* The model's answer grows by a token
ParseToken ==
    /\ parsePc = "respond"
    /\ Len(parseContent) < MaxResponseTokens
    /\ \E token \in ResponseTokens(parseCall) :
         parseContent' = Append(parseContent, token)
    /\ UNCHANGED << parseCall, parsePc, parseResult, parseOthers >>

\* The answer is complete and the call's code parses it
ParseResponse ==
    /\ parsePc = "respond"
    /\ parseResult' = Some(ParsedAs(parseCall, parseContent))
    /\ parsePc' = "done"
    /\ UNCHANGED << parseCall, parseContent, parseOthers >>

ParseNext ==
    \/ ParseCallMade
    \/ ParseToken
    \/ ParseResponse

SpecParse == ParseInit /\ [][ParseNext]_vars

\* The response is the call's JSON object wrapped in a Markdown code fence
IsFencedJson(call, content) ==
    \E open \in {"FENCE", "FENCE_JSON"} :
        content = << open, "{", BodyOf(call), "}", "FENCE" >>

\* The response is the JSON object itself
IsBareJson(call, content) ==
    content = << "{", BodyOf(call), "}" >> \/ content = << "{", "}" >>

\* The response holds no JSON object at all
IsUnparseable(call, content) ==
    /\ content # << >>
    /\ \A i, j \in 1..Len(content) :
          (i < j /\ content[i] = "{" /\ content[j] = "}") =>
              /\ ~ IsBareJson(call, SubSeq(content, i, j))

\* The value the call hands on for its object
ParsedValue(call) ==
    CASE call = "popupMetadata"       -> Response(200, Some(MetadataObject("M_RCT")))
      [] call = "popupSentiment"      -> Response(200, BodyObject("B_POS8"))
      [] call = "serverAnalysis"      -> Response(200, "R_RESULTS")
      [] call = "serverMetadata"      -> Response(200, "M_RCT")
      [] call = "serverScoreFeatures" -> Response(200, "F_GRADES")

\* The call's fallback value
FallbackValue(call) ==
    CASE call = "popupMetadata"       -> Response(200, None)
      [] call = "popupSentiment"      -> Response(200, FallbackSentiment)
      [] call = "serverAnalysis"      -> Response(200, "NEUTRAL for every paper")
      [] call = "serverMetadata"      -> Response(200, "not reported")
      [] call = "serverScoreFeatures" -> Response(200, "grades all 0")

UnwrapsAndFallsBack(call) ==
    (parsePc = "done" /\ parseCall = call) =>
        /\ Get(parseResult).status = 200
        /\ IsFencedJson(call, parseContent) => Get(parseResult) = ParsedValue(call)
        /\ IsUnparseable(call, parseContent) => Get(parseResult) = FallbackValue(call)

\* C26: for every model call whose output is parsed as JSON (the popup's
\* metadata and sentiment extraction and the server's paper-analysis,
\* metadata-extraction and feature-scoring endpoints), a response that is
\* valid JSON wrapped in a Markdown code fence is unwrapped and parsed, and an
\* unparseable response yields the call's fallback value, never an exception
\* or an error response to the caller.
C26_FencedParsedUnparseableFallsBack ==
    \A call \in ParsedCalls : UnwrapsAndFallsBack(call)

\* What holds: the two calls of the popup do as the claim says
C26_PopupCallsUnwrapAndFallBack ==
    \A call \in {"popupMetadata", "popupSentiment"} : UnwrapsAndFallsBack(call)

\* What holds of the server: the paper-analysis endpoint unwraps a fence
\* whose opening line is tagged json, and it and the metadata endpoint answer
\* an unparseable response with their fallback and status 200
C26_ServerFallbacks ==
    (parsePc = "done") =>
        /\ (parseCall = "serverAnalysis"
              /\ parseContent = << "FENCE_JSON", "{", "R_RESULTS", "}", "FENCE" >>)
             => Get(parseResult) = ParsedValue(parseCall)
        /\ (parseCall \in {"serverAnalysis", "serverMetadata"}
              /\ IsUnparseable(parseCall, parseContent))
             => Get(parseResult) = FallbackValue(parseCall)

---------------------------------------------------------------------------
(* SpecPopup: the context-menu handoff (background.js 11-25, popup.js       *)
(* 1077-1133) and the clicks on #checkButton.  A check is held as a run of *)
(* onCheckClick from the lines that disable the button (974-975) to the    *)
(* finally block that enables it (1069-1072); its stages are those of      *)
(* Spec.  The storage calls of the two contexts and the openPopup calls    *)
(* are carried out one at a time, in any order, except that the two writes *)
(* of one context-menu click are carried out in the order they were        *)
(* issued.                                                                 *)

MaxMenuClicks == 2

\* Checks started by the timer that are counted
MaxAutoRuns == 2

\* info.selectionText of the n-th context-menu click
SelectionText(n) == IF n = 1 THEN "claim A" ELSE "claim B"

\* chrome.storage.local.set(items): the keys given are written, the others kept
StorageSet(store, items) ==
    [selectedText    |-> items.selectedText,
     runSearchOnOpen |-> store.runSearchOnOpen \/ items.runSearchOnOpen]

\* background.js 11-25: set({selectedText}), openPopup(), and
\* set({selectedText, runSearchOnOpen: true}, () => openPopup())
MenuClick ==
    /\ menuClicks < MaxMenuClicks
    /\ menuClicks' = menuClicks + 1
    /\ LET text == SelectionText(menuClicks + 1)
       IN  bgWrites' = bgWrites \o
              << [selectedText |-> Some(text), runSearchOnOpen |-> FALSE],
                 [selectedText |-> Some(text), runSearchOnOpen |-> TRUE] >>
    /\ bgOpens' = bgOpens + 1
    /\ UNCHANGED << storage, popup, popupInput, popupRead, popupRemove, popupTimer,
                    popupDisabled, popupInFlight, autoRuns, lastClick, userActed,
                    popupOthers >>

\* The oldest pending set is carried out; the callback of the second set of
\* a click calls openPopup
StorageWriteLands ==
    /\ bgWrites # << >>
    /\ storage' = StorageSet(storage, Head(bgWrites))
    /\ bgWrites' = Tail(bgWrites)
    /\ bgOpens' = IF Head(bgWrites).runSearchOnOpen THEN bgOpens + 1 ELSE bgOpens
    /\ UNCHANGED << menuClicks, popup, popupInput, popupRead, popupRemove, popupTimer,
                    popupDisabled, popupInFlight, autoRuns, lastClick, userActed,
                    popupOthers >>

\* A pending openPopup is carried out: the popup document is loaded and its
\* DOMContentLoaded handler starts, unless the popup is open already
OpenPopupRuns ==
    /\ bgOpens > 0
    /\ bgOpens' = bgOpens - 1
    /\ popup' = IF popup = "closed" THEN "loading" ELSE popup
    /\ UNCHANGED << storage, menuClicks, bgWrites, popupInput, popupRead, popupRemove,
                    popupTimer, popupDisabled, popupInFlight, autoRuns, lastClick,
                    userActed, popupOthers >>

\* The user opens the popup from the toolbar
UserOpensPopup ==
    /\ popup = "closed"
    /\ popup' = "loading"
    /\ userActed' = TRUE
    /\ UNCHANGED << storage, menuClicks, bgWrites, bgOpens, popupInput, popupRead,
                    popupRemove, popupTimer, popupDisabled, popupInFlight, autoRuns,
                    lastClick, popupOthers >>

\* popup.js 1118-1132: storage.local.get is carried out and its callback
\* runs: the input is filled, remove is called, the click is scheduled
PopupReadsStorage ==
    /\ popup = "loading"
    /\ popup' = "open"
    /\ popupRead' = Some(storage)
    /\ IF Has(storage.selectedText)
       THEN /\ popupInput' = Get(storage.selectedText)
            /\ popupRemove' = TRUE
            /\ popupTimer' = storage.runSearchOnOpen
       ELSE UNCHANGED << popupInput, popupRemove, popupTimer >>
    /\ UNCHANGED << storage, menuClicks, bgWrites, bgOpens, popupDisabled,
                    popupInFlight, autoRuns, lastClick, userActed, popupOthers >>

\* storage.local.remove(['selectedText', 'runSearchOnOpen']) is carried out
StorageRemoveLands ==
    /\ popupRemove
    /\ popupRemove' = FALSE
    /\ storage' = EmptyStorage
    /\ UNCHANGED << menuClicks, bgWrites, bgOpens, popup, popupInput, popupRead,
                    popupTimer, popupDisabled, popupInFlight, autoRuns, lastClick,
                    userActed, popupOthers >>

\* Mutant: onCheckClick leaves the button enabled while it runs
ClickLeavesButtonEnabled(byTimer) ==
    IF popupDisabled
    THEN /\ lastClick' = "dropped"
         /\ UNCHANGED << popupDisabled, popupInFlight, autoRuns >>
    ELSE IF popupInput = ""
    THEN /\ lastClick' = "alerted"
         /\ UNCHANGED << popupDisabled, popupInFlight, autoRuns >>
    ELSE /\ lastClick' = "started"
         /\ popupDisabled' = FALSE
         /\ popupInFlight' = popupInFlight + 1
         /\ autoRuns' = IF byTimer THEN autoRuns + 1 ELSE autoRuns

\* A click on #checkButton, by the user or by btn.click(): a disabled button
\* dispatches no click event; onCheckClick alerts on an empty claim and
\* otherwise disables the button and starts the check (961-976)
Click(byTimer) ==
    IF popupDisabled
    THEN /\ lastClick' = "dropped"
         /\ UNCHANGED << popupDisabled, popupInFlight, autoRuns >>
    ELSE IF popupInput = ""
    THEN /\ lastClick' = "alerted"
         /\ UNCHANGED << popupDisabled, popupInFlight, autoRuns >>
    ELSE /\ lastClick' = "started"
         /\ popupDisabled' = TRUE
         /\ popupInFlight' = popupInFlight + 1
         /\ autoRuns' = IF byTimer THEN autoRuns + 1 ELSE autoRuns

\* The timer of line 1129 fires
TimerFires ==
    /\ popupTimer
    /\ popup = "open"
    /\ autoRuns < MaxAutoRuns
    /\ popupTimer' = FALSE
    /\ Click(TRUE)
    /\ UNCHANGED << storage, menuClicks, bgWrites, bgOpens, popup, popupInput,
                    popupRead, popupRemove, userActed, popupOthers >>

\* The user clicks the button (the listener is there from line 1079 on)
UserClicks ==
    /\ popup # "closed"
    /\ Click(FALSE)
    /\ userActed' = TRUE
    /\ UNCHANGED << storage, menuClicks, bgWrites, bgOpens, popup, popupInput,
                    popupRead, popupRemove, popupTimer, popupOthers >>

\* The user types a claim
UserTypes ==
    /\ popup # "closed"
    /\ popupInput # "typed"
    /\ popupInput' = "typed"
    /\ userActed' = TRUE
    /\ UNCHANGED << storage, menuClicks, bgWrites, bgOpens, popup, popupRead,
                    popupRemove, popupTimer, popupDisabled, popupInFlight, autoRuns,
                    lastClick, popupOthers >>

\* A running onCheckClick reaches its finally block (1069-1072)
CheckFinishes ==
    /\ popupInFlight > 0
    /\ popupInFlight' = popupInFlight - 1
    /\ popupDisabled' = FALSE
    /\ UNCHANGED << storage, menuClicks, bgWrites, bgOpens, popup, popupInput,
                    popupRead, popupRemove, popupTimer, autoRuns, lastClick,
                    userActed, popupOthers >>

\* The popup is closed: its document, timers and running checks are gone; a
\* storage call it has made is still carried out
PopupCloses ==
    /\ popup # "closed"
    /\ popup' = "closed"
    /\ popupInput' = ""
    /\ popupRead' = None
    /\ popupTimer' = FALSE
    /\ popupDisabled' = FALSE
    /\ popupInFlight' = 0
    /\ lastClick' = "none"
    /\ userActed' = TRUE
    /\ UNCHANGED << storage, menuClicks, bgWrites, bgOpens, popupRemove, autoRuns,
                    popupOthers >>

PopupInit ==
    /\ BaseIdle
    /\ LiveIdle
    /\ EnrichIdle
    /\ MetadataIdle
    /\ RephraseIdle
    /\ ParseIdle
    /\ HandoffIdle

PopupNext ==
    \/ MenuClick
    \/ StorageWriteLands
    \/ OpenPopupRuns
    \/ UserOpensPopup
    \/ PopupReadsStorage
    \/ StorageRemoveLands
    \/ TimerFires
    \/ UserClicks
    \/ UserTypes
    \/ CheckFinishes
    \/ PopupCloses

SpecPopup == PopupInit /\ [][PopupNext]_vars

\* C29: at most one claim check is in flight in a popup at any time: a button
\* click, or the context-menu auto-run click, that arrives while a check is
\* running does not start a second pipeline.
C29_AtMostOneCheckInFlight ==
    /\ popupInFlight <= 1
    /\ popupInFlight = 1 => popupDisabled /\ lastClick \in {"started", "dropped"}
    /\ popupInFlight = 0 => ~ popupDisabled

\* C29 witness: the user started a check before the timer of the handoff
\* fired; the timer's click arrived during the check and was dropped
C29_Witness ==
    /\ popupInFlight = 1
    /\ lastClick = "dropped"
    /\ menuClicks = 1
    /\ Has(popupRead) /\ Get(popupRead).runSearchOnOpen
    /\ ~ popupTimer
    /\ autoRuns = 0

\* Nothing of the handoff is pending any more
HandoffQuiescent ==
    /\ bgWrites = << >>
    /\ bgOpens = 0
    /\ popup # "loading"
    /\ ~ popupRemove
    /\ ~ popupTimer

\* C30: the context-menu handoff is one-shot: after a context-menu click and
\* the popup's load-time read, under every interleaving of the background
\* script's storage writes and popup openings with the popup's
\* read-and-remove, the selected text is auto-run exactly once and
\* chrome.storage.local eventually holds neither selectedText nor
\* runSearchOnOpen.
C30_HandoffIsOneShot ==
    (menuClicks = 1 /\ ~ userActed /\ HandoffQuiescent) =>
        /\ autoRuns = 1
        /\ storage = EmptyStorage

\* What holds: when the popup's read is carried out after both writes of the
\* click, the text is run once and the storage is left without the two keys
C30_OneShotWhenReadAfterBothWrites ==
    (menuClicks = 1 /\ ~ userActed /\ HandoffQuiescent
        /\ Has(popupRead) /\ Get(popupRead).runSearchOnOpen) =>
        /\ autoRuns = 1
        /\ storage = EmptyStorage
        /\ popupInput = "claim A"

=============================================================================
